---- MODULE Spec2Model ----
(***************************************************************************)
(* Backend lifecycle of the WARP panel (CrisRain/warppanel).               *)
(*                                                                         *)
(* Two generations of the control plane are modelled over one host:        *)
(*   - backend/app        : asyncio drivers (proxy mode only); every       *)
(*                          `await` is a point where another task of the   *)
(*                          event loop may run.  Specifications Spec       *)
(*                          (two tasks) and SpecSeq (one task, with the    *)
(*                          status cache and the clock).                   *)
(*   - controller-app/app : blocking drivers with proxy and tun mode.      *)
(*                          Specification SpecApp.                         *)
(*                                                                         *)
(* The host (supervisor services, the SOCKS5 listener, the warp daemon,    *)
(* the routing tables) is the environment.  `supervisorctl stop` returns   *)
(* after the service has stopped; a start, a warp-cli command, a           *)
(* registration, an IP lookup and a forced kill may fail.                  *)
(***************************************************************************)
EXTENDS Integers, Sequences, FiniteSets, TLC

\* ------------------------------------------------------------------ bounds
MaxInst == 2        \* driver objects constructed over a run (switches + 1)
MaxTicks == 1       \* clock advances over a run
MaxIp == 2          \* distinct egress addresses
MaxOps == 1         \* lifecycle requests served while the startup connect runs
MaxSeqOps == 1      \* lifecycle requests served one after another
MaxSubmitted == 6   \* calls handed to the controller-app's thread pool over a run
TryPolls == 2       \* readiness polls of _connect_proxy (15 in the code)
MaxPolls == 2       \* readiness polls of a connect before its deadline passes
MaxCalls == 3       \* API requests of the controller-app over a run
MaxEmits == 3       \* log records emitted over a run
PendingMax == 2     \* maxlen of LogCollector._pending_logs (200 in the code)
MaxClients == 2     \* WebSocket clients that connect over a run
MaxStatus == 1      \* broadcasts of the status_broadcast_loop over a run
MaxFlush == 2       \* flush tasks of the LogCollector alive at a time

\* the polling loops are checked for this many attempts each; the source
\* gives range(15), range(30), range(10) and timeouts of 30, 5 and 15 s
UsquePollAttempts == 2       \* usque_controller.py: for _ in range(15)
DaemonPollAttempts == 2      \* official_controller.py: for _ in range(30)
PortPollAttempts == 2        \* warp_controller.py: for _ in range(10)
ConnectWaitOfficial == 2     \* wait_for_status("connected", timeout=30)
DisconnectWait == 2          \* wait_for_status("disconnected", timeout=5)
ConnectWaitRotate == 2       \* wait_for_status("connected", timeout=15)

\* ------------------------------------------------ program constants
STATUS_CACHE_TTL == 2        \* base_controller.py: _STATUS_CACHE_TTL
cache_ttl == 120             \* base_controller.py: self._cache_ttl

Tasks == {"bg", "req"}
\* Spec: the startup connect ("bg") runs beside the request handler ("req");
\* SpecSeq: one flow of control serves the requests after the startup connect
Requesters == {"req"}
SeqTasks == {"bg"}
Budget(t) == IF t \in SeqTasks THEN MaxSeqOps ELSE MaxOps
Backends == {"usque", "official"}
Services == {"usque", "warp-svc", "socat"}
InstIds == 1..MaxInst
\* main.py: _thread_pool = ThreadPoolExecutor(max_workers=4)
PoolWorkers == 1..4
\* WebSocket objects, log records, the tasks that call manager.broadcast
Clients == 1..MaxClients
Entries == 1..MaxEmits
FlushTasks == 1..MaxFlush
StatusLoop == 0
Broadcasters == FlushTasks \cup {StatusLoop}
NoBroadcast == [at |-> "idle", msg |-> 0, idx |-> 0, cur |-> 0, dead |-> {},
                sent |-> [c \in Clients |-> 0], through |-> {}]
TickSteps == {1, STATUS_CACHE_TTL, cache_ttl}

VARIABLES
    \* host
    svc,            \* supervisor state of each service
    port,           \* who listens on the SOCKS5 port
    daemonReady,    \* warp-svc answers warp-cli
    warpWant,       \* the warp client was told to connect
    warpConnected,  \* warp-cli status reports Connected
    regUsque,       \* /var/lib/warp/config.json exists
    regOfficial,    \* /var/lib/cloudflare-warp/reg.json exists
    egressIp,       \* the public address the tunnel currently exits from
    now,            \* loop.time()
    ticks,
    ops,            \* lifecycle requests served so far
    \* WarpController (factory)
    envBackend,     \* os.environ["WARP_BACKEND"]
    instance,       \* cls._instance (0: None)
    currentBackend, \* cls._current_backend ("none": None)
    kind,           \* class of each constructed driver object
    \* driver objects
    statusCache, statusCacheTime, cachedIp, cacheTime,
    \* tasks of the event loop
    pc, stack, drv, n, stamp, res, arg, log, pre, started, ret,
    \* controller-app: driver object and its host
    appBackend,         \* class of the controller-app driver
    mode,               \* self._mode
    preferred_protocol, \* self.preferred_protocol
    configExists,       \* usque's config.json exists
    appUp,              \* services supervisor reports RUNNING
    tunDev,             \* whose tunnel interface exists
    warpOn,             \* warp-cli status reports Connected
    listener,           \* who listens on the SOCKS5 port
    rules,              \* policy rules that say 'lookup 100'
    table100,           \* routes of table 100
    endpointRoute,      \* the endpoints a /32 route via the original gateway exists for
    defaultRoute,       \* the main table's default route
    saved,              \* self._saved_gateway is set
    endpointOverride,   \* the endpoint override in each client's configuration
    nftAllow,           \* ports the driver's accept rules in the WARP firewall name
    kernelDupRules,     \* `ip rule add` of a rule that exists adds a second copy
    \* controller-app: requests
    pending,            \* protocol handed to the thread pool
    detached,           \* the driver object a queued call is bound to, once replaced
    containerized,      \* the process runs inside a container
    followUp,           \* what the route serving a request still has to call
    calls,              \* API requests accepted so far
    lastCall,           \* the request served last
    cmds,               \* commands the last request ran
    \* controller-app: _thread_pool
    threads,            \* what each worker thread of the pool runs
    polls,              \* readiness polls the connect on a worker has made
    work_queue,         \* calls handed to the pool that no worker has taken
    submitted,          \* calls handed to the pool so far
    \* backend: one driver operation, command by command
    tryCall,            \* the public operation in progress
    tryAt,              \* the command it is about to run
    tryN,               \* iteration of the loop it is in
    lastRun,            \* what the last _run_command call gave its caller
    opRet,              \* what the last operation gave its caller
    failed,             \* commands of the operation that did not exit 0
    \* backend: utils/logger.py LogCollector
    loop_set,           \* self._loop is set (and that loop is running)
    flush_scheduled,    \* self._flush_scheduled
    pending_logs,       \* self._pending_logs
    emitted,            \* records emitted so far; a record is its number
    afterLoop,          \* records emitted with the loop set
    dropped,            \* records pushed out of _pending_logs
    broadcastLog,       \* records manager.broadcast has returned for
    fpc,                \* where each flush task is
    \* backend: utils/connection.py ConnectionManager
    active_connections, \* self.active_connections
    client,             \* each WebSocket: new, active or closed
    bc,                 \* each broadcast() call in progress, or the last one
    returned,           \* the broadcast() call that returned last
    statusSent          \* broadcasts the status loop has made

hostVars == <<svc, port, daemonReady, warpWant, warpConnected, regUsque,
              regOfficial, egressIp>>
clockVars == <<now, ticks, ops>>
factoryVars == <<envBackend, instance, currentBackend, kind>>
cacheVars == <<statusCache, statusCacheTime, cachedIp, cacheTime>>
taskVars == <<pc, stack, drv, n, stamp, res, arg, log, pre, started, ret>>
backVars == <<hostVars, clockVars, factoryVars, cacheVars, taskVars>>
poolVars == <<threads, polls, work_queue, submitted>>
tryVars == <<tryCall, tryAt, tryN, lastRun, opRet, failed>>
logVars == <<loop_set, flush_scheduled, pending_logs, emitted, afterLoop,
             dropped, broadcastLog, fpc>>
wsVars == <<logVars, active_connections, client, bc, returned, statusSent>>
appVars == <<appBackend, mode, preferred_protocol, configExists, appUp, tunDev,
             warpOn, listener, rules, table100, endpointRoute, defaultRoute,
             saved, endpointOverride, nftAllow, kernelDupRules, pending, detached, containerized, followUp, calls,
             lastCall, cmds, poolVars, tryVars, wsVars>>
vars == <<backVars, appVars>>

None == [status |-> "none", ip |-> 0, old |-> FALSE]
NoRun == [exc |-> "none", rc |-> 0, out |-> ""]
NoOpRet == [op |-> "none", exc |-> "none", val |-> "none", at |-> 0, info |-> "none"]
NoRet == [proc |-> "none", result |-> FALSE, status |-> None]
NoObj == [mode |-> "none", proto |-> "none", saved |-> FALSE]

\* ------------------------------------------------------------ observations
\* UsqueController._is_proxy_connected: supervisor reports RUNNING and the
\* SOCKS5 port is listening (whoever listens).
UsqueConnectedIn(s, p) == s["usque"] = "RUNNING" /\ p # "none"

\* OfficialController._is_daemon_responsive
DaemonResponsiveIn(s, d) == s["warp-svc"] = "RUNNING" /\ d

\* OfficialController.is_connected
OfficialConnectedIn(s, d, w) == DaemonResponsiveIn(s, d) /\ w

IsConnectedIn(k, s, p, d, w) ==
    IF k = "usque" THEN UsqueConnectedIn(s, p) ELSE OfficialConnectedIn(s, d, w)

is_connected(k) == IsConnectedIn(k, svc, port, daemonReady, warpConnected)

ServicesOf(k) == IF k = "usque" THEN {"usque"} ELSE {"warp-svc", "socat"}

Running(s) == {x \in Services : s[x] = "RUNNING"}

\* ---------------------------------------------------------- task plumbing
Goto(t, l) == /\ pc' = [pc EXCEPT ![t] = l]
              /\ UNCHANGED <<stack, res, ret>>

\* call the procedure at l; continue at k when it returns
Call(t, l, k) == /\ pc' = [pc EXCEPT ![t] = l]
                 /\ stack' = [stack EXCEPT ![t] = <<k>> \o @]
                 /\ UNCHANGED <<res, ret>>

\* procedure proc returns v (and, from get_status, the status record st)
RetWith(t, proc, v, st) ==
    /\ pc' = [pc EXCEPT ![t] = IF stack[t] = <<>> THEN "idle" ELSE Head(stack[t])]
    /\ stack' = [stack EXCEPT ![t] = IF stack[t] = <<>> THEN <<>> ELSE Tail(stack[t])]
    /\ res' = [res EXCEPT ![t] = v]
    /\ ret' = [ret EXCEPT ![t] = [proc |-> proc, result |-> v, status |-> st]]

Ret(t, proc, v) == RetWith(t, proc, v, None)

Logged(t, cs) == log' = [log EXCEPT ![t] = @ \cup cs]

StopCmds(S) == {<<"stop", x>> : x \in S}

\* supervisorctl stop <each of S>: the services are stopped when it returns;
\* the listener of a stopped service is closed, or is still held by a
\* process that outlives it
StopServices(S) ==
    /\ svc' = [x \in Services |-> IF x \in S THEN "STOPPED" ELSE svc[x]]
    /\ IF port \in S THEN port' \in {"none", "orphan"} ELSE port' = port
    /\ IF "warp-svc" \in S
          THEN daemonReady' = FALSE /\ warpConnected' = FALSE
          ELSE UNCHANGED <<daemonReady, warpConnected>>

\* WarpBackendController._invalidate_status_cache
invalidate_status_cache(d) ==
    /\ statusCache' = [statusCache EXCEPT ![d] = None]
    /\ statusCacheTime' = [statusCacheTime EXCEPT ![d] = 0]

\* ------------------------------------------------------------ the factory
Entry(proc, k) ==
    IF proc = "connect" THEN (IF k = "usque" THEN "uc_init" ELSE "oc_reg")
    ELSE (IF k = "usque" THEN "ud_stop" ELSE "od_cli")

\* =================================================== backend: UsqueController
\* initialize(): register once when the config file is missing
Usque_initialize(t) ==
    /\ UNCHANGED appVars
    /\ pc[t] = "uc_init"
    /\ UNCHANGED <<svc, port, daemonReady, warpWant, warpConnected, regOfficial,
                   egressIp, clockVars, factoryVars, cacheVars, drv, n, stamp, arg, pre,
                   started>>
    /\ IF regUsque
          THEN /\ UNCHANGED <<regUsque, log>>
               /\ Goto(t, "uc_check")
          ELSE \E ok \in BOOLEAN :
               /\ regUsque' = ok
               /\ Logged(t, {<<"register", "usque">>})
               /\ IF ok THEN Goto(t, "uc_check") ELSE Ret(t, "connect", FALSE)

\* connect(): "usque already running" short-circuit
Usque_connect(t) ==
    /\ UNCHANGED appVars
    /\ pc[t] = "uc_check"
    /\ UNCHANGED <<hostVars, clockVars, factoryVars, cacheVars, drv, n, stamp, arg, log,
                   pre, started>>
    /\ IF is_connected("usque") THEN Ret(t, "connect", TRUE) ELSE Goto(t, "uc_stop")

\* _connect_proxy(): supervisorctl stop usque (clean state)
Usque_connect_proxy_stop(t) ==
    /\ UNCHANGED appVars
    /\ pc[t] = "uc_stop"
    /\ StopServices({"usque"})
    /\ Logged(t, StopCmds({"usque"}))
    /\ UNCHANGED <<warpWant, regUsque, regOfficial, egressIp, clockVars,
                   factoryVars, cacheVars, drv, n, stamp, arg, pre, started>>
    /\ Goto(t, "uc_start")

\* _connect_proxy(): supervisorctl start usque; rc # 0 returns False
Usque_connect_proxy_start(t) ==
    /\ UNCHANGED appVars
    /\ pc[t] = "uc_start"
    /\ Logged(t, {<<"start", "usque">>})
    /\ UNCHANGED <<port, daemonReady, warpWant, warpConnected, regUsque,
                   regOfficial, egressIp, clockVars, factoryVars, cacheVars, drv,
                   stamp, arg, pre>>
    /\ \E ok \in BOOLEAN :
         IF ok
            THEN /\ svc' = [svc EXCEPT !["usque"] = "RUNNING"]
                 /\ started' = [started EXCEPT ![t] = @ \cup {"usque"}]
                 /\ n' = [n EXCEPT ![t] = 0]
                 /\ Goto(t, "uc_poll")
            ELSE /\ UNCHANGED <<svc, started, n>>
                 /\ Ret(t, "connect", FALSE)

\* _connect_proxy(): for _ in range(15): if _is_proxy_connected(): return True
Usque_connect_proxy_poll(t) ==
    /\ UNCHANGED appVars
    /\ pc[t] = "uc_poll"
    /\ UNCHANGED <<hostVars, clockVars, factoryVars, cacheVars, drv, stamp, arg, log,
                   pre, started>>
    /\ IF is_connected("usque")
          THEN UNCHANGED n /\ Ret(t, "connect", TRUE)
          ELSE IF n[t] + 1 >= UsquePollAttempts
                  THEN UNCHANGED n /\ Ret(t, "connect", FALSE)
                  ELSE n' = [n EXCEPT ![t] = @ + 1] /\ Goto(t, "uc_poll")

\* disconnect(): supervisorctl stop usque, invalidate the cache, return True
Usque_disconnect(t) ==
    /\ UNCHANGED appVars
    /\ pc[t] = "ud_stop"
    /\ StopServices({"usque"})
    /\ Logged(t, StopCmds({"usque"}))
    /\ invalidate_status_cache(drv[t])
    /\ UNCHANGED <<warpWant, regUsque, regOfficial, egressIp, clockVars,
                   factoryVars, cachedIp, cacheTime, drv, n, stamp, arg, pre, started>>
    /\ Ret(t, "disconnect", TRUE)

\* ================================================ backend: OfficialController
\* execute_command("warp-cli ..."): None unless the daemon answers with rc 0
CliOutcomes == IF DaemonResponsiveIn(svc, daemonReady) THEN BOOLEAN ELSE {FALSE}

\* _connect_proxy(): "No registration found, attempting to register..."
Official_connect_register(t) ==
    /\ UNCHANGED appVars
    /\ pc[t] = "oc_reg"
    /\ UNCHANGED <<svc, port, daemonReady, warpWant, warpConnected, regUsque,
                   egressIp, clockVars, factoryVars, cacheVars, drv, n, stamp, arg, pre,
                   started>>
    /\ IF regOfficial
          THEN UNCHANGED <<regOfficial, log>>
          ELSE /\ \E ok \in CliOutcomes : regOfficial' = ok
               /\ Logged(t, {<<"register", "official">>})
    /\ Goto(t, "oc_daemon")

\* _connect_proxy(): if not await self._is_daemon_responsive()
Official_connect_daemon_check(t) ==
    /\ UNCHANGED appVars
    /\ pc[t] = "oc_daemon"
    /\ UNCHANGED <<hostVars, clockVars, factoryVars, cacheVars, drv, n, stamp, arg, log,
                   pre, started>>
    /\ IF DaemonResponsiveIn(svc, daemonReady)
          THEN Goto(t, "oc_socat")
          ELSE Goto(t, "oc_stopsvc")

\* _stop_services(): supervisorctl stop socat ...
Official_stop_socat(t) ==
    /\ UNCHANGED appVars
    /\ pc[t] \in {"oc_stopsvc", "od_stop"}
    /\ StopServices({"socat"})
    /\ Logged(t, StopCmds({"socat"}))
    /\ UNCHANGED <<warpWant, regUsque, regOfficial, egressIp, clockVars,
                   factoryVars, cacheVars, drv, n, stamp, arg, pre, started>>
    /\ IF pc[t] = "oc_stopsvc" THEN Goto(t, "oc_stopwarp") ELSE Goto(t, "od_stopwarp")

\* ... then supervisorctl stop warp-svc (from _connect_proxy, when the
\* daemon does not answer)
Official_connect_stop_services(t) ==
    /\ UNCHANGED appVars
    /\ pc[t] = "oc_stopwarp"
    /\ StopServices({"warp-svc"})
    /\ Logged(t, StopCmds({"warp-svc"}))
    /\ UNCHANGED <<warpWant, regUsque, regOfficial, egressIp, clockVars,
                   factoryVars, cacheVars, drv, n, stamp, arg, pre, started>>
    /\ Goto(t, "oc_startsvc")

\* _start_services_proxy(): supervisorctl start warp-svc; rc # 0 returns False
Official_start_services_proxy(t) ==
    /\ UNCHANGED appVars
    /\ pc[t] = "oc_startsvc"
    /\ Logged(t, {<<"start", "warp-svc">>})
    /\ UNCHANGED <<port, warpWant, warpConnected, regUsque, regOfficial, egressIp,
                   clockVars, factoryVars, cacheVars, drv, n, stamp, arg, pre>>
    /\ \E ok \in BOOLEAN :
         IF ok
            THEN /\ svc' = [svc EXCEPT !["warp-svc"] = "RUNNING"]
                 /\ daemonReady' = (svc["warp-svc"] = "RUNNING" /\ daemonReady)
                 /\ started' = [started EXCEPT ![t] = @ \cup {"warp-svc"}]
                 /\ Goto(t, "os_socat")
            ELSE /\ UNCHANGED <<svc, daemonReady, started>>
                 /\ Ret(t, "connect", FALSE)

\* _ensure_socat(): nothing when socat is RUNNING and the port listens;
\* otherwise supervisorctl stop socat, supervisorctl start socat
Official_ensure_socat(t) ==
    /\ UNCHANGED appVars
    /\ pc[t] \in {"os_socat", "oc_socat"}
    /\ UNCHANGED <<daemonReady, warpWant, warpConnected, regUsque, regOfficial,
                   egressIp, clockVars, factoryVars, cacheVars, drv, stamp, arg, pre>>
    /\ IF svc["socat"] = "RUNNING" /\ port # "none"
          THEN UNCHANGED <<svc, port, log, started>>
          ELSE /\ Logged(t, {<<"stop", "socat">>, <<"start", "socat">>})
               /\ IF port = "socat" THEN port' \in {"none", "orphan"}
                                    ELSE port' = port
               /\ \E ok \in BOOLEAN :
                    IF ok
                       THEN /\ svc' = [svc EXCEPT !["socat"] = "RUNNING"]
                            /\ started' = [started EXCEPT ![t] = @ \cup {"socat"}]
                       ELSE /\ svc' = [svc EXCEPT !["socat"] = "STOPPED"]
                            /\ UNCHANGED started
    /\ n' = [n EXCEPT ![t] = 0]
    /\ IF pc[t] = "os_socat" THEN Goto(t, "os_poll") ELSE Goto(t, "oc_cli_disc")

\* _start_services_proxy(): for _ in range(30): if responsive: return
\* _configure_warp_proxy() (which registers when reg.json is missing)
Official_start_services_poll(t) ==
    /\ UNCHANGED appVars
    /\ pc[t] = "os_poll"
    /\ UNCHANGED <<svc, port, daemonReady, warpWant, warpConnected, regUsque,
                   egressIp, clockVars, factoryVars, cacheVars, drv, stamp, arg, pre,
                   started>>
    /\ IF DaemonResponsiveIn(svc, daemonReady)
          THEN /\ IF regOfficial
                     THEN UNCHANGED <<regOfficial, log>>
                     ELSE /\ \E ok \in BOOLEAN : regOfficial' = ok
                          /\ Logged(t, {<<"register", "official">>})
               /\ UNCHANGED n
               /\ Goto(t, "oc_socat")
          ELSE /\ UNCHANGED <<regOfficial, log>>
               /\ IF n[t] + 1 >= DaemonPollAttempts
                     THEN UNCHANGED n /\ Ret(t, "connect", FALSE)
                     ELSE n' = [n EXCEPT ![t] = @ + 1] /\ Goto(t, "os_poll")

\* _connect_proxy(): warp-cli disconnect ("Reset mode first"), then mode
\* proxy / proxy port / tunnel protocol
Official_connect_cli_disconnect(t) ==
    /\ UNCHANGED appVars
    /\ pc[t] = "oc_cli_disc"
    /\ Logged(t, {<<"cli", "disconnect">>})
    /\ UNCHANGED <<svc, port, daemonReady, regUsque, regOfficial, egressIp,
                   clockVars, factoryVars, cacheVars, drv, n, stamp, arg, pre, started>>
    /\ \E ok \in CliOutcomes :
         IF ok THEN warpWant' = FALSE /\ warpConnected' = FALSE
               ELSE UNCHANGED <<warpWant, warpConnected>>
    /\ Goto(t, "oc_cli_conn")

\* _connect_proxy(): warp-cli connect, then wait_for_status("connected", 30)
Official_connect_cli_connect(t) ==
    /\ UNCHANGED appVars
    /\ pc[t] = "oc_cli_conn"
    /\ Logged(t, {<<"cli", "connect">>})
    /\ UNCHANGED <<svc, port, daemonReady, warpConnected, regUsque, regOfficial,
                   egressIp, clockVars, factoryVars, cacheVars, drv, stamp, arg, pre,
                   started>>
    /\ \E ok \in CliOutcomes : warpWant' = (ok \/ warpWant)
    /\ n' = [n EXCEPT ![t] = 0]
    /\ Call(t, "w_conn_30", "oc_done")

\* _connect_proxy(): the result of the wait is the result of connect
Official_connect_result(t) ==
    /\ UNCHANGED appVars
    /\ pc[t] = "oc_done"
    /\ IF res[t] THEN invalidate_status_cache(drv[t])
                 ELSE UNCHANGED <<statusCache, statusCacheTime>>
    /\ UNCHANGED <<hostVars, clockVars, factoryVars, cachedIp, cacheTime, drv, n,
                   stamp, arg, log, pre, started>>
    /\ Ret(t, "connect", res[t])

\* disconnect(): invalidate, warp-cli disconnect (failure swallowed)
Official_disconnect(t) ==
    /\ UNCHANGED appVars
    /\ pc[t] = "od_cli"
    /\ invalidate_status_cache(drv[t])
    /\ Logged(t, {<<"cli", "disconnect">>})
    /\ UNCHANGED <<svc, port, daemonReady, regUsque, regOfficial, egressIp,
                   clockVars, factoryVars, cachedIp, cacheTime, drv, stamp, arg, pre,
                   started>>
    /\ \E ok \in CliOutcomes :
         IF ok THEN warpWant' = FALSE /\ warpConnected' = FALSE
               ELSE UNCHANGED <<warpWant, warpConnected>>
    /\ n' = [n EXCEPT ![t] = 0]
    /\ Call(t, "w_disc_5", "od_stop")

\* variant: warp-svc is stopped only when the wait saw the client disconnected
Official_disconnect_stop_if_waited(t) ==
    /\ UNCHANGED appVars
    /\ pc[t] = "od_stopwarp"
    /\ IF res[t] THEN /\ StopServices({"warp-svc"})
                      /\ Logged(t, StopCmds({"warp-svc"}))
                 ELSE UNCHANGED <<svc, port, daemonReady, warpConnected, log>>
    /\ UNCHANGED <<warpWant, regUsque, regOfficial, egressIp, clockVars,
                   factoryVars, cacheVars, drv, n, stamp, arg, pre, started>>
    /\ Ret(t, "disconnect", TRUE)

\* disconnect(): _stop_services() whatever the wait returned; return True
Official_disconnect_stop_services(t) ==
    /\ UNCHANGED appVars
    /\ pc[t] = "od_stopwarp"
    /\ StopServices({"warp-svc"})
    /\ Logged(t, StopCmds({"warp-svc"}))
    /\ UNCHANGED <<warpWant, regUsque, regOfficial, egressIp, clockVars,
                   factoryVars, cacheVars, drv, n, stamp, arg, pre, started>>
    /\ Ret(t, "disconnect", TRUE)

\* ========================================== backend: WarpBackendController
WaitLabels == {"w_conn_30", "w_disc_5", "w_conn_15"}
WaitTarget(l) == IF l = "w_disc_5" THEN "disconnected" ELSE "connected"
WaitLimit(l) == IF l = "w_conn_30" THEN ConnectWaitOfficial
                ELSE IF l = "w_disc_5" THEN DisconnectWait ELSE ConnectWaitRotate

\* wait_for_status(target, timeout): poll is_connected once a second
wait_for_status(t) ==
    /\ UNCHANGED appVars
    /\ pc[t] \in WaitLabels
    /\ UNCHANGED <<hostVars, clockVars, factoryVars, cachedIp, cacheTime, drv, stamp, arg,
                   log, pre, started>>
    /\ IF is_connected(kind[drv[t]]) = (WaitTarget(pc[t]) = "connected")
          THEN /\ invalidate_status_cache(drv[t])
               /\ UNCHANGED n
               /\ Ret(t, "wait", TRUE)
          ELSE /\ UNCHANGED <<statusCache, statusCacheTime>>
               /\ IF n[t] + 1 >= WaitLimit(pc[t])
                     THEN UNCHANGED n /\ Ret(t, "wait", FALSE)
                     ELSE n' = [n EXCEPT ![t] = @ + 1] /\ Goto(t, pc[t])

\* rotate_ip_simple(): disconnect, wait "disconnected" (5 s), sleep 2,
\* connect, and if that returned True wait "connected" (15 s)
rotate_ip_simple(t) ==
    /\ UNCHANGED appVars
    /\ pc[t] \in {"rot_1", "rot_2", "rot_3", "rot_4"}
    /\ UNCHANGED <<hostVars, clockVars, factoryVars, cacheVars, drv, stamp, arg, log,
                   pre, started>>
    /\ n' = [n EXCEPT ![t] = 0]
    /\ CASE pc[t] = "rot_1" -> Call(t, "w_disc_5", "rot_2")
         [] pc[t] = "rot_2" -> Call(t, Entry("connect", kind[drv[t]]), "rot_3")
         [] pc[t] = "rot_3" -> IF res[t] THEN Call(t, "w_conn_15", "rot_4")
                                         ELSE Ret(t, "rotate", FALSE)
         [] pc[t] = "rot_4" -> Ret(t, "rotate", res[t])

\* ================================================= backend: WarpController
Constructed == {i \in InstIds : kind[i] # "none"}
NextId == Cardinality(Constructed) + 1

\* get_instance(): a new driver object when none is held or the configured
\* name differs from the recorded one; an unknown name raises after the
\* name has been recorded
get_instance ==
    IF instance = 0 \/ currentBackend # envBackend
       THEN /\ currentBackend' = envBackend
            /\ IF envBackend \in Backends
                  THEN /\ instance' = NextId
                       /\ kind' = [kind EXCEPT ![NextId] = envBackend]
                  ELSE UNCHANGED <<instance, kind>>
            /\ UNCHANGED envBackend
       ELSE UNCHANGED factoryVars

\* get_instance(): raise ValueError("Unknown WARP_BACKEND ...")
get_instance_raises ==
    (instance = 0 \/ currentBackend # envBackend) /\ envBackend \notin Backends

\* get_current_backend()
get_current_backend == IF currentBackend # "none" THEN currentBackend ELSE envBackend

\* what a top-level call starts from: empty command log, nothing started,
\* and whether the driver was connected when the call was made
Fresh(t, stk) ==
    /\ log' = [log EXCEPT ![t] = {}]
    /\ started' = [started EXCEPT ![t] = {}]
    /\ pre' = [pre EXCEPT ![t] =
                 [conn |-> is_connected(kind'[instance']),
                  held |-> port \in ServicesOf(kind'[instance']),
                  proc |-> ret[t].proc, result |-> ret[t].result]]
    /\ drv' = [drv EXCEPT ![t] = instance']
    /\ n' = [n EXCEPT ![t] = 0]
    /\ res' = [res EXCEPT ![t] = FALSE]
    /\ ret' = [ret EXCEPT ![t] = NoRet]
    /\ stack' = [stack EXCEPT ![t] = stk]

\* routes/warp.py POST /connect (and main.py connect_in_background)
StartConnect(t) ==
    /\ UNCHANGED appVars
    /\ pc[t] = "idle"
    /\ ops < Budget(t) /\ ops' = ops + 1
    /\ get_instance
    /\ UNCHANGED <<hostVars, now, ticks, cacheVars, stamp, arg>>
    /\ Fresh(t, <<>>)
    /\ pc' = [pc EXCEPT ![t] = Entry("connect", kind'[instance'])]

\* routes/warp.py POST /disconnect
StartDisconnect(t) ==
    /\ UNCHANGED appVars
    /\ pc[t] = "idle"
    /\ ops < Budget(t) /\ ops' = ops + 1
    /\ get_instance
    /\ UNCHANGED <<hostVars, now, ticks, cacheVars, stamp, arg>>
    /\ Fresh(t, <<>>)
    /\ pc' = [pc EXCEPT ![t] = Entry("disconnect", kind'[instance'])]

\* the ghost mark "old" on what is cached when a rotation starts
MarkOld(c) == IF c.status = "none" /\ c.ip = 0 THEN c ELSE [c EXCEPT !.old = TRUE]

\* routes/warp.py POST /rotate: rotate_ip_simple() begins with disconnect()
StartRotate(t) ==
    /\ UNCHANGED appVars
    /\ pc[t] = "idle"
    /\ ops < Budget(t) /\ ops' = ops + 1
    /\ get_instance
    /\ UNCHANGED <<hostVars, now, ticks, statusCacheTime, cacheTime, stamp, arg>>
    /\ statusCache' = [statusCache EXCEPT ![instance'] = MarkOld(@)]
    /\ cachedIp' = [cachedIp EXCEPT ![instance'] = MarkOld(@)]
    /\ Fresh(t, <<"rot_1">>)
    /\ pc' = [pc EXCEPT ![t] = Entry("disconnect", kind'[instance'])]

\* the calls of switch_backend that have not yet built their new driver
Switching ==
    {t \in Tasks : \/ pc[t] \in {"sw_poll", "sw_kill"}
                   \/ (stack[t] # <<>> /\ stack[t][Len(stack[t])] = "sw_poll")}

\* the "backend" field of a switch request: a backend, or something else
SwitchNames == Backends \cup {"other"}

\* variant: every name is taken for a backend
AnyBackendName(new) == TRUE

\* routes/warp.py switch_backend: new_backend in ["usque", "official"], tested
\* again at the top of WarpController.switch_backend
ValidBackendName(new) == new \in Backends

\* routes/warp.py POST /backend/switch with another name: HTTP 400 is raised
\* before the factory is called
RejectSwitch(t, new) ==
    /\ UNCHANGED appVars
    /\ pc[t] = "idle"
    /\ ops < Budget(t) /\ ops' = ops + 1
    /\ ~ValidBackendName(new)
    /\ UNCHANGED <<hostVars, now, ticks, factoryVars, cacheVars, pc, stack, drv, n,
                   stamp, res, arg, log, pre, started>>
    /\ ret' = [ret EXCEPT ![t] = [proc |-> "switch_rejected", result |-> FALSE,
                                  status |-> None]]

\* switch_backend(new): "Already using" returns the held instance; otherwise
\* the held driver is disconnected first (errors are logged and swallowed)
StartSwitch(t, new) ==
    /\ UNCHANGED appVars
    /\ pc[t] = "idle"
    /\ ops < Budget(t) /\ ops' = ops + 1
    /\ ValidBackendName(new)
    /\ UNCHANGED <<hostVars, now, ticks, factoryVars, cacheVars, stamp>>
    /\ log' = [log EXCEPT ![t] = {}]
    /\ started' = [started EXCEPT ![t] = {}]
    /\ pre' = [pre EXCEPT ![t] =
                 [conn |-> instance # 0 /\ is_connected(kind[instance]),
                  held |-> instance # 0 /\ port \in ServicesOf(kind[instance]),
                  proc |-> ret[t].proc, result |-> ret[t].result]]
    /\ n' = [n EXCEPT ![t] = 0]
    /\ arg' = [arg EXCEPT ![t] = new]
    /\ IF get_current_backend = new /\ instance # 0
          THEN /\ drv' = [drv EXCEPT ![t] = instance]
               /\ stack' = [stack EXCEPT ![t] = <<>>]
               /\ pc' = [pc EXCEPT ![t] = "sw_same"]
               /\ UNCHANGED <<res, ret>>
          ELSE /\ NextId + Cardinality(Switching) <= MaxInst
               /\ res' = [res EXCEPT ![t] = FALSE]
               /\ ret' = [ret EXCEPT ![t] = NoRet]
               /\ IF instance # 0
                     THEN /\ drv' = [drv EXCEPT ![t] = instance]
                          /\ stack' = [stack EXCEPT ![t] = <<"sw_poll">>]
                          /\ pc' = [pc EXCEPT ![t] =
                                      Entry("disconnect", kind[instance])]
                     ELSE /\ UNCHANGED drv
                          /\ stack' = [stack EXCEPT ![t] = <<>>]
                          /\ pc' = [pc EXCEPT ![t] = "sw_poll"]

\* switch_backend(): return cls._instance ("Already using ... backend")
switch_backend_same(t) ==
    /\ UNCHANGED appVars
    /\ pc[t] = "sw_same"
    /\ UNCHANGED <<hostVars, clockVars, factoryVars, cacheVars, drv, n, stamp,
                   arg, log, pre, started>>
    /\ Ret(t, "switch", TRUE)

\* switch_backend(): os.environ["WARP_BACKEND"] = new; _instance = None;
\* _current_backend = None; return get_instance()
SwitchFinish(t) ==
    /\ envBackend' = arg[t]
    /\ currentBackend' = arg[t]
    /\ instance' = NextId
    /\ kind' = [kind EXCEPT ![NextId] = arg[t]]
    /\ drv' = [drv EXCEPT ![t] = NextId]

\* switch_backend(): for _ in range(10): a refused connection means the
\* port is free (break); a connection that opens means busy (sleep 0.5).
\* Nothing is awaited between the break and the return.
switch_backend_poll(t) ==
    /\ UNCHANGED appVars
    /\ pc[t] = "sw_poll"
    /\ UNCHANGED <<hostVars, clockVars, cacheVars, stamp, arg, log, pre, started>>
    /\ IF port = "none"
          THEN /\ SwitchFinish(t)
               /\ UNCHANGED n
               /\ Ret(t, "switch", TRUE)
          ELSE /\ UNCHANGED <<factoryVars, drv>>
               /\ n' = [n EXCEPT ![t] = @ + 1]
               /\ IF n[t] + 1 >= PortPollAttempts
                     THEN Goto(t, "sw_kill")
                     ELSE Goto(t, "sw_poll")

\* the process that listens on the port is killed
KillListener ==
    /\ port' = "none"
    /\ svc' = [x \in Services |-> IF x = port THEN "STOPPED" ELSE svc[x]]

\* switch_backend(): "Force kill if still occupied (last resort)": psutil
\* may be missing, net_connections() or kill() may raise; all are swallowed
switch_backend_kill(t) ==
    /\ UNCHANGED appVars
    /\ pc[t] = "sw_kill"
    /\ UNCHANGED <<daemonReady, warpWant, warpConnected, regUsque, regOfficial,
                   egressIp, clockVars, cacheVars, n, stamp, arg, pre, started>>
    /\ IF port = "none"
          THEN UNCHANGED <<svc, port, log>>
          ELSE /\ Logged(t, {<<"kill", port>>})
               /\ \E ok \in BOOLEAN :
                    IF ok THEN KillListener ELSE UNCHANGED <<svc, port>>
    /\ SwitchFinish(t)
    /\ Ret(t, "switch", TRUE)

\* ------------------------------------------------------------- get_status
Fresh_status_at_ttl(d, t0) ==
    statusCache[d] # None /\ t0 - statusCacheTime[d] <= STATUS_CACHE_TTL

Fresh_status(d, t0) ==
    statusCache[d] # None /\ t0 - statusCacheTime[d] < STATUS_CACHE_TTL

\* base_status of _get_status_uncached, with the IP information merged in
StatusOf(connected, info) ==
    [status |-> IF connected THEN "connected" ELSE "disconnected",
     ip |-> info.ip, old |-> info.old]

\* get_status() stores what _get_status_uncached returned under the time
\* read at the start of the call
Store(t, st) ==
    /\ statusCache' = [statusCache EXCEPT ![drv[t]] = st]
    /\ statusCacheTime' = [statusCacheTime EXCEPT ![drv[t]] = stamp[t].a]

\* routes/system.py GET /status: get_status() returns the cached record
\* while it is younger than _STATUS_CACHE_TTL
StartGetStatus(t) ==
    /\ UNCHANGED appVars
    /\ pc[t] = "idle"
    /\ get_instance
    /\ UNCHANGED <<hostVars, clockVars, cacheVars, arg>>
    /\ Fresh(t, <<>>)
    /\ stamp' = [stamp EXCEPT ![t] = [a |-> now, b |-> now]]
    /\ pc' = [pc EXCEPT ![t] =
                IF Fresh_status(instance', now) THEN "gs_hit" ELSE "gs_conn"]

get_status_cached(t) ==
    /\ UNCHANGED appVars
    /\ pc[t] = "gs_hit"
    /\ UNCHANGED <<hostVars, clockVars, factoryVars, cacheVars, drv, n, stamp,
                   arg, log, pre, started>>
    /\ RetWith(t, "get_status", TRUE, statusCache[drv[t]])

\* _get_status_uncached(): connected = await self.is_connected(); a
\* disconnected driver drops its IP information; a connected one reuses IP
\* information younger than _cache_ttl
get_status_uncached(t) ==
    /\ UNCHANGED appVars
    /\ pc[t] = "gs_conn"
    /\ UNCHANGED <<hostVars, clockVars, factoryVars, drv, n, arg, log, pre,
                   started>>
    /\ stamp' = [stamp EXCEPT ![t].b = now]
    /\ IF ~is_connected(kind[drv[t]])
          THEN /\ cachedIp' = [cachedIp EXCEPT ![drv[t]] = None]
               /\ UNCHANGED cacheTime
               /\ Store(t, StatusOf(FALSE, None))
               /\ RetWith(t, "get_status", TRUE, StatusOf(FALSE, None))
          ELSE IF cachedIp[drv[t]] # None /\ now - cacheTime[drv[t]] < cache_ttl
                  THEN /\ UNCHANGED <<cachedIp, cacheTime>>
                       /\ Store(t, StatusOf(TRUE, cachedIp[drv[t]]))
                       /\ RetWith(t, "get_status", TRUE,
                                  StatusOf(TRUE, cachedIp[drv[t]]))
                  ELSE /\ UNCHANGED cacheVars
                       /\ Goto(t, "gs_fetch")

\* _get_status_uncached(): ip_info = await self._fetch_ip_info(); a failed
\* lookup falls back to whatever IP information is still held
get_status_fetch(t) ==
    /\ UNCHANGED appVars
    /\ pc[t] = "gs_fetch"
    /\ UNCHANGED <<hostVars, clockVars, factoryVars, drv, n, stamp, arg, log, pre,
                   started>>
    /\ \E ok \in BOOLEAN :
         LET info == IF ok THEN [status |-> "none", ip |-> egressIp, old |-> FALSE]
                           ELSE cachedIp[drv[t]]
         IN /\ IF ok THEN /\ cachedIp' = [cachedIp EXCEPT ![drv[t]] = info]
                          /\ cacheTime' = [cacheTime EXCEPT ![drv[t]] = stamp[t].b]
                     ELSE UNCHANGED <<cachedIp, cacheTime>>
            /\ Store(t, StatusOf(TRUE, info))
            /\ RetWith(t, "get_status", TRUE, StatusOf(TRUE, info))

\* ------------------------------------------------------------ environment
\* the started usque binds the SOCKS5 port; a new tunnel has a new egress
UsqueBinds ==
    /\ UNCHANGED appVars
    /\ svc["usque"] = "RUNNING" /\ port = "none"
    /\ port' = "usque"
    /\ egressIp' \in 1..MaxIp
    /\ UNCHANGED <<svc, daemonReady, warpWant, warpConnected, regUsque,
                   regOfficial, clockVars, factoryVars, cacheVars, taskVars>>

SocatBinds ==
    /\ UNCHANGED appVars
    /\ svc["socat"] = "RUNNING" /\ port = "none"
    /\ port' = "socat"
    /\ UNCHANGED <<svc, daemonReady, warpWant, warpConnected, regUsque,
                   regOfficial, egressIp, clockVars, factoryVars, cacheVars,
                   taskVars>>

\* the started warp-svc begins to answer warp-cli
DaemonUp ==
    /\ UNCHANGED appVars
    /\ svc["warp-svc"] = "RUNNING" /\ ~daemonReady
    /\ daemonReady' = TRUE
    /\ UNCHANGED <<svc, port, warpWant, warpConnected, regUsque, regOfficial,
                   egressIp, clockVars, factoryVars, cacheVars, taskVars>>

\* the warp client, told to connect, reports Connected
WarpConnects ==
    /\ UNCHANGED appVars
    /\ DaemonResponsiveIn(svc, daemonReady) /\ warpWant /\ ~warpConnected
    /\ warpConnected' = TRUE
    /\ egressIp' \in 1..MaxIp
    /\ UNCHANGED <<svc, port, daemonReady, warpWant, regUsque, regOfficial,
                   clockVars, factoryVars, cacheVars, taskVars>>

\* the process that outlived its service exits and the port is released
OrphanExits ==
    /\ UNCHANGED appVars
    /\ port = "orphan"
    /\ port' = "none"
    /\ UNCHANGED <<svc, daemonReady, warpWant, warpConnected, regUsque,
                   regOfficial, egressIp, clockVars, factoryVars, cacheVars,
                   taskVars>>

Tick ==
    /\ UNCHANGED appVars
    /\ ticks < MaxTicks
    /\ \E d \in TickSteps : now' = now + d
    /\ ticks' = ticks + 1
    /\ UNCHANGED ops
    /\ UNCHANGED <<hostVars, factoryVars, cacheVars, taskVars>>

\* ====================================================== controller-app/app
\* The blocking drivers.  A driver method is one step: it returns one of its
\* outcomes [s, ok, cmds]: the host and driver state it leaves, its return
\* value and the commands it has run.
Cur == [backend |-> appBackend, mode |-> mode, proto |-> preferred_protocol,
        config |-> configExists, up |-> appUp, tun |-> tunDev, warp |-> warpOn,
        listen |-> listener, rules |-> rules, table |-> table100,
        ep |-> endpointRoute, dflt |-> defaultRoute, saved |-> saved,
        override |-> endpointOverride, allow |-> nftAllow,
        dup |-> kernelDupRules]

\* what one driver call leaves behind: the state, the value returned, the
\* commands issued and, for set_protocol, the order of its calls
Out(s, ok, c) == [s |-> s, ok |-> ok, cmds |-> c, steps |-> <<>>]

InOrder(o, st) == [o EXCEPT !.steps = st]

AppStopCmds(S) == {<<"stop", x>> : x \in S}

\* supervisorctl stop <each of S>.  A stopped tunnel process takes its
\* interface with it: the WARP client restores the routes it changed and
\* removes its firewall table (inet cloudflare-warp) with every rule in it,
\* and whether the host gets its original default route back after usque's
\* `ip route replace default dev tun0` is outside the program.
AppStop(s, S) ==
    LET tunGoes == \/ s.tun = "usque" /\ "usque-tun" \in S
                   \/ s.tun = "warp" /\ "warp-svc" \in S
        base == [s EXCEPT !.up = @ \ S,
                          !.listen = IF @ \in S THEN "none" ELSE @,
                          !.warp = IF "warp-svc" \in S THEN FALSE ELSE @,
                          !.tun = IF tunGoes THEN "none" ELSE @,
                          !.allow = IF tunGoes /\ s.tun = "warp" THEN {} ELSE @]
    IN IF tunGoes /\ s.dflt = "tun"
          THEN {[base EXCEPT !.dflt = d] :
                    d \in IF s.tun = "warp" THEN {"orig"} ELSE {"orig", "none"}}
          ELSE {base}

\* ------------------------------------------------ UsqueController (blocking)
\* is_connected(): _is_tun_connected() in tun mode, _is_proxy_connected() else
UsqueApp_is_connected(s) ==
    IF s.mode = "tun" THEN "usque-tun" \in s.up /\ s.tun # "none"
                      ELSE "usque" \in s.up /\ s.listen # "none"

\* initialize(): `usque register` when the config file is missing; the
\* config.json it writes names the endpoint the account was registered with
UsqueApp_initialize(s) ==
    IF s.config THEN {Out(s, TRUE, {})}
    ELSE {Out([s EXCEPT !.config = TRUE, !.override["usque"] = "registered"],
              TRUE, {<<"register", "usque">>}),
          Out(s, FALSE, {<<"register", "usque">>})}

\* _start_http_proxy(): nothing when RUNNING, else supervisorctl start
\* http-proxy (check=False)
StartIfStopped(s, x) ==
    IF x \in s.up THEN {Out(s, TRUE, {})}
    ELSE {Out([s EXCEPT !.up = @ \cup {x}], TRUE, {<<"start", x>>}),
          Out(s, TRUE, {<<"start", x>>})}

\* _connect_proxy(): stop usque, start usque (check=True), 15 polls of
\* _is_proxy_connected(), then _start_http_proxy()
UsqueApp_connect_proxy(s) ==
    LET c == {<<"stop", "usque">>, <<"start", "usque">>}
    IN UNION {
         LET s2 == [s1 EXCEPT !.up = @ \cup {"usque"}]
             s3 == [s2 EXCEPT !.listen = IF @ = "none" THEN "usque" ELSE @]
         IN {Out(s1, FALSE, c), Out(s2, FALSE, c)}
            \cup {Out(h.s, TRUE, c \cup h.cmds) : h \in StartIfStopped(s3, "http-proxy")}
         : s1 \in AppStop(s, {"usque"})}

\* `ip rule add from <ip> lookup 100`: the rule "self"; where the rule is
\* already there the kernel answers "File exists" (the exit code is not
\* looked at) or, on older kernels, adds a second copy, "self2"
IpRuleAdd(R, dup) ==
    IF "self" \notin R THEN R \cup {"self"}
    ELSE IF dup THEN R \cup {"self2"} ELSE R

\* `ip rule del from <ip> lookup 100`: one copy of the rule goes
IpRuleDel(R) == IF "self2" \in R THEN R \ {"self2"} ELSE R \ {"self"}

\* _get_warp_endpoint(): endpoint_v4 of config.json, "" for None
UsqueApp_get_warp_endpoint(s) == IF s.config THEN s.override["usque"] ELSE ""

\* _setup_tun_routing(orig_gw, orig_iface, orig_ip): table 100 and the rule
\* from orig_ip when the original route is known, the endpoint route when
\* the endpoint is known too, and the default route through the tunnel
UsqueApp_setup_tun_routing(s, known) ==
    [s EXCEPT !.table = IF known THEN @ \cup {"default", "link"} ELSE @,
              !.rules = IF known THEN IpRuleAdd(IpRuleDel(@), s.dup) ELSE @,
              !.ep = IF known /\ UsqueApp_get_warp_endpoint(s) # ""
                        THEN @ \cup {UsqueApp_get_warp_endpoint(s)} ELSE @,
              !.dflt = "tun"]

UsqueApp_setup_cmds(s, known) ==
    (IF known THEN {<<"ip", "route-add-100">>, <<"ip", "rule-del">>,
                    <<"ip", "rule-add">>} ELSE {})
    \cup (IF known /\ UsqueApp_get_warp_endpoint(s) # ""
             THEN {<<"ip", "route-add-endpoint">>} ELSE {})
    \cup {<<"ip", "replace-default">>}

\* _connect_tun(): stop usque, usque-tun, tun-proxy; read the default route;
\* start usque-tun (check=True); 20 polls for the interface; routing;
\* start tun-proxy (check=True); 10 polls of the SOCKS5 port
UsqueApp_connect_tun(s) ==
    LET S == {"usque", "usque-tun", "tun-proxy"}
        c1 == AppStopCmds(S) \cup {<<"start", "usque-tun">>}
    IN UNION {
         LET known == s1.dflt = "orig"
             s2 == [s1 EXCEPT !.up = @ \cup {"usque-tun"}]
             s3 == UsqueApp_setup_tun_routing([s2 EXCEPT !.tun = "usque"], known)
             c3 == c1 \cup UsqueApp_setup_cmds(s2, known)
                      \cup {<<"start", "tun-proxy">>}
             s4 == [s3 EXCEPT !.up = @ \cup {"tun-proxy"}]
         IN {Out(s1, FALSE, c1), Out(s2, FALSE, c1), Out(s3, FALSE, c3),
             Out(s4, FALSE, c3),
             Out([s4 EXCEPT !.listen = "tun-proxy"], TRUE, c3)}
         : s1 \in AppStop(s, S)}

\* connect(): initialize(), the "already running" short-circuit, then the
\* connect of the current mode
UsqueApp_connect(s) ==
    UNION {
      IF ~i.ok THEN {i}
      ELSE IF UsqueApp_is_connected(i.s) THEN {i}
      ELSE {Out(o.s, o.ok, i.cmds \cup o.cmds) :
                o \in IF i.s.mode = "tun" THEN UsqueApp_connect_tun(i.s)
                                          ELSE UsqueApp_connect_proxy(i.s)}
      : i \in UsqueApp_initialize(s)}

\* variant: the cleanup also deletes the main table's default route
UsqueApp_cleanup_and_default(s) ==
    [s EXCEPT !.rules = {}, !.table = {},
              !.ep = @ \ {UsqueApp_get_warp_endpoint(s)}, !.dflt = "none"]

\* _cleanup_tun_routing(): delete every rule that says 'lookup 100', flush
\* table 100, delete the route of the endpoint config.json names now
UsqueApp_cleanup_tun_routing(s) ==
    [s EXCEPT !.rules = {}, !.table = {},
              !.ep = @ \ {UsqueApp_get_warp_endpoint(s)}]

UsqueApp_cleanup_cmds(s) ==
    (IF s.rules # {} THEN {<<"ip", "rule-del">>} ELSE {})
    \cup {<<"ip", "flush-100">>}
    \cup (IF UsqueApp_get_warp_endpoint(s) # ""
             THEN {<<"ip", "route-del-endpoint">>} ELSE {})

\* disconnect(): stop tun-proxy, http-proxy, usque-tun, usque; always
\* _cleanup_tun_routing(); return True
UsqueApp_disconnect(s) ==
    LET S == {"tun-proxy", "http-proxy", "usque-tun", "usque"}
    IN {InOrder(Out(UsqueApp_cleanup_tun_routing(s1), TRUE,
                    AppStopCmds(S) \cup UsqueApp_cleanup_cmds(s1)),
                <<"stop", "cleanup">>) : s1 \in AppStop(s, S)}

\* variant: the mode flag is switched without a disconnect
UsqueApp_set_mode_flag_only(s, m) == {Out([s EXCEPT !.mode = m], TRUE, {})}

\* set_mode(mode): nothing when unchanged, else disconnect() and set _mode
UsqueApp_set_mode(s, m) ==
    IF m = s.mode THEN {Out(s, TRUE, {})}
    ELSE {Out([o.s EXCEPT !.mode = m], TRUE, o.cmds) : o \in UsqueApp_disconnect(s)}

\* set_custom_endpoint(endpoint): False when config.json is missing; else
\* endpoint_v4 is written (or popped), then disconnect(), then connect()
UsqueApp_set_custom_endpoint(s, a) ==
    IF ~s.config THEN {Out(s, FALSE, {})}
    ELSE UNION {{InOrder(Out(c.s, c.ok, d.cmds \cup c.cmds),
                         <<"write", "disconnect",
                           IF c.ok THEN "connect-true" ELSE "connect-false">>)
                   : c \in UsqueApp_connect(d.s)}
                : d \in UsqueApp_disconnect([s EXCEPT !.override["usque"] = a])}

\* ---------------------------------------------- OfficialController (blocking)
OfficialServices == {"tun-proxy", "http-proxy", "socat", "warp-svc"}

\* _is_daemon_responsive()
OfficialApp_is_daemon_responsive(s) == "warp-svc" \in s.up

\* is_connected(): the daemon answers and warp-cli status says Connected
OfficialApp_is_connected(s) == OfficialApp_is_daemon_responsive(s) /\ s.warp

\* _ensure_socat(): proxy mode only; nothing when socat is RUNNING and the
\* port listens, else supervisorctl start socat
OfficialApp_ensure_socat(s) ==
    IF s.mode # "proxy" \/ ("socat" \in s.up /\ s.listen # "none")
       THEN {Out(s, TRUE, {})}
       ELSE {Out(s, TRUE, {<<"start", "socat">>}),
             Out([s EXCEPT !.up = @ \cup {"socat"},
                           !.listen = IF @ = "none" THEN "socat" ELSE @],
                 TRUE, {<<"start", "socat">>})}

\* _connect_proxy() / _connect_tun(), first part: when the daemon does not
\* answer, _stop_services() and _start_services_proxy() / _start_services_tun()
\* (start warp-svc with check=True, 30 polls, configure)
OfficialApp_start_services(s) ==
    IF OfficialApp_is_daemon_responsive(s) THEN {Out(s, TRUE, {})}
    ELSE LET c == AppStopCmds(OfficialServices) \cup {<<"start", "warp-svc">>}
         IN UNION {
              {Out(s1, FALSE, c)}
              \cup UNION {{Out(e.s, FALSE, c \cup e.cmds),
                           Out(e.s, TRUE, c \cup e.cmds \cup {<<"cli", "configure">>})}
                          : e \in OfficialApp_ensure_socat(
                                     [s1 EXCEPT !.up = @ \cup {"warp-svc"}])}
              : s1 \in AppStop(s, OfficialServices)}

\* _connect_proxy(): services, _ensure_socat(), warp-cli mode proxy ...
\* connect, wait_for_status("connected", 600), _start_http_proxy()
OfficialApp_connect_proxy(s) ==
    UNION {
      IF ~p.ok THEN {p}
      ELSE UNION {
             LET c == p.cmds \cup e.cmds \cup {<<"cli", "configure">>, <<"cli", "connect">>}
             IN (IF e.s.warp THEN {} ELSE {Out(e.s, FALSE, c)})
                \cup {Out(h.s, TRUE, c \cup h.cmds)
                        : h \in StartIfStopped([e.s EXCEPT !.warp = TRUE], "http-proxy")}
             : e \in OfficialApp_ensure_socat(p.s)}
      : p \in OfficialApp_start_services(s)}

\* _save_original_route(): the saved fields are set when `ip route show
\* default` names a gateway; they keep their values otherwise
OfficialApp_save_original_route(s) == [s EXCEPT !.saved = @ \/ s.dflt = "orig"]

\* _apply_tun_routing(): nothing without the saved route, else table 100 and
\* the rule from the saved address
OfficialApp_apply_tun_routing(s) ==
    IF ~s.saved THEN s
    ELSE [s EXCEPT !.table = @ \cup {"default", "link"},
                   !.rules = IpRuleAdd(@, s.dup)]

\* the ports the panel needs: 8000, 1080 and 8080, written into the three
\* `nft insert rule ... tcp dport <port> accept` commands
RequiredPorts == {8000, 1080, 8080}

\* ports that listen on the host, or that its firewall accepts, before the
\* tunnel comes up
PreexistingPorts == {22}

\* _apply_tun_routing(), the nftables part: skipped without the saved route;
\* `nft list table inet cloudflare-warp` is polled 10 times, and when the
\* table is found accept rules for the three ports are inserted
OfficialApp_apply_nft(s) ==
    IF ~s.saved THEN {Out(s, FALSE, {})}
    ELSE {Out(s, FALSE, {<<"nft", "list">>}),
          Out([s EXCEPT !.allow = @ \cup RequiredPorts], TRUE,
              {<<"nft", "list">>, <<"nft", "insert">>})}

\* _connect_tun(): services, _save_original_route(), warp-cli mode warp,
\* tunnel protocol, connect, wait_for_status("connected", 600),
\* _apply_tun_routing(), _start_tun_proxy()
OfficialApp_connect_tun(s) ==
    UNION {
      IF ~p.ok THEN {p}
      ELSE LET s1 == OfficialApp_save_original_route(p.s)
               c == p.cmds \cup {<<"cli", "configure">>, <<"cli", "connect">>}
               s2 == OfficialApp_apply_tun_routing(
                         [s1 EXCEPT !.warp = TRUE, !.tun = "warp", !.dflt = "tun"])
               c2 == c \cup (IF s1.saved THEN {<<"ip", "route-add-100">>,
                                               <<"ip", "rule-add">>} ELSE {})
           IN (IF s1.warp THEN {} ELSE {Out(s1, FALSE, c)})
              \cup UNION {{Out([h.s EXCEPT !.listen = IF "tun-proxy" \in h.s.up /\ @ = "none"
                                                       THEN "tun-proxy" ELSE @],
                               TRUE,
                               c2 \cup f.cmds \cup h.cmds)
                             : h \in StartIfStopped(f.s, "tun-proxy")}
                           : f \in OfficialApp_apply_nft(s2)}
      : p \in OfficialApp_start_services(s)}

\* connect()
OfficialApp_connect(s) ==
    IF s.mode = "tun" THEN OfficialApp_connect_tun(s) ELSE OfficialApp_connect_proxy(s)

\* variant: the cleanup deletes the rules and leaves table 100 as it is
OfficialApp_cleanup_rules_only(s) == [s EXCEPT !.rules = {}]

\* _cleanup_tun_routing(): delete every rule that says 'lookup 100', flush
\* table 100
OfficialApp_cleanup_tun_routing(s) == [s EXCEPT !.rules = {}, !.table = {}]

OfficialApp_cleanup_cmds(s) ==
    (IF s.rules # {} THEN {<<"ip", "rule-del">>} ELSE {}) \cup {<<"ip", "flush-100">>}

\* execute_command("warp-cli ... disconnect"): None unless the daemon
\* answers; the client that disconnects removes its interface and routes
OfficialApp_cli_disconnect(s) ==
    {s} \cup (IF OfficialApp_is_daemon_responsive(s)
                 THEN {[s EXCEPT !.warp = FALSE,
                                 !.tun = IF @ = "warp" THEN "none" ELSE @,
                                 !.allow = {},
                                 !.dflt = IF s.tun = "warp" /\ @ = "tun" THEN "orig" ELSE @]}
                 ELSE {})

\* disconnect(): in tun mode _cleanup_tun_routing(); warp-cli disconnect and
\* the wait (failures swallowed); _stop_services(); return True
OfficialApp_disconnect(s) ==
    LET s0 == IF s.mode = "tun" THEN OfficialApp_cleanup_tun_routing(s) ELSE s
        c == (IF s.mode = "tun" THEN OfficialApp_cleanup_cmds(s) ELSE {})
             \cup {<<"cli", "disconnect">>} \cup AppStopCmds(OfficialServices)
        st == (IF s.mode = "tun" THEN <<"cleanup">> ELSE <<>>)
              \o <<"disconnect", "wait", "stop">>
    IN UNION {{InOrder(Out(s2, TRUE, c), st) : s2 \in AppStop(s1, OfficialServices)}
              : s1 \in OfficialApp_cli_disconnect(s0)}

\* set_mode(), from disconnect() on: disconnect() in the previous mode;
\* leaving tun mode, _cleanup_tun_routing() once more; set _mode
OfficialApp_set_mode_switch(s, m) ==
    {Out([(IF s.mode = "tun" THEN OfficialApp_cleanup_tun_routing(o.s)
                             ELSE o.s) EXCEPT !.mode = m],
         TRUE,
         o.cmds \cup (IF s.mode = "tun" THEN OfficialApp_cleanup_cmds(o.s) ELSE {}))
       : o \in OfficialApp_disconnect(s)}

\* variant: the protocol preference survives the change of mode
OfficialApp_set_mode_keep_protocol(s, m) ==
    IF m = s.mode THEN {Out(s, TRUE, {})}
    ELSE OfficialApp_set_mode_switch(s, m)

\* set_mode(mode): nothing when unchanged; a wireguard preference is reset
\* when going to proxy; then the switch of mode
OfficialApp_set_mode(s, m) ==
    IF m = s.mode THEN {Out(s, TRUE, {})}
    ELSE OfficialApp_set_mode_switch(
             IF m = "proxy" /\ s.proto = "wireguard"
                THEN [s EXCEPT !.proto = "masque"] ELSE s, m)

\* set_protocol(), from the assignment of preferred_protocol on: warp-cli
\* disconnect, tunnel protocol set (None: return False), _stop_services(),
\* connect()
OfficialApp_set_protocol_apply(s, p) ==
    UNION {
      LET c == {<<"cli", "disconnect">>, <<"cli", "protocol">>}
      IN {InOrder(Out(s1, FALSE, c), <<"disconnect", "protocol-failed">>)}
         \cup (IF OfficialApp_is_daemon_responsive(s1)
                  THEN UNION {{InOrder(Out(o.s, o.ok, c \cup AppStopCmds(OfficialServices)
                                                        \cup o.cmds),
                                       <<"disconnect", "protocol", "stop",
                                         IF o.ok THEN "connect-true" ELSE "connect-false">>)
                                 : o \in OfficialApp_connect(s2)}
                              : s2 \in AppStop(s1, OfficialServices)}
                  ELSE {})
      : s1 \in OfficialApp_cli_disconnect([s EXCEPT !.proto = p])}

\* variant: the driver applies wireguard whatever the mode
OfficialApp_set_protocol_any_mode(s, p) ==
    IF s.proto = p THEN {Out(s, TRUE, {})}
    ELSE OfficialApp_set_protocol_apply(s, p)

\* set_protocol(protocol): wireguard outside tun mode returns False before
\* anything else; the same protocol returns True; otherwise the protocol is
\* applied
OfficialApp_set_protocol(s, p) ==
    IF p = "wireguard" /\ s.mode # "tun" THEN {Out(s, FALSE, {})}
    ELSE IF s.proto = p THEN {Out(s, TRUE, {})}
    ELSE OfficialApp_set_protocol_apply(s, p)

\* set_custom_endpoint(endpoint): warp-cli tunnel endpoint set/reset (result
\* not looked at), warp-cli disconnect and the wait, then connect()
OfficialApp_set_custom_endpoint(s, a) ==
    LET W == {s} \cup (IF OfficialApp_is_daemon_responsive(s)
                          THEN {[s EXCEPT !.override["official"] = a]} ELSE {})
    IN UNION {UNION {{InOrder(Out(c.s, c.ok, {<<"cli", "endpoint">>, <<"cli", "disconnect">>}
                                             \cup c.cmds),
                              <<"write", "cli-disconnect",
                                IF c.ok THEN "connect-true" ELSE "connect-false">>)
                        : c \in OfficialApp_connect(s2)}
                     : s2 \in OfficialApp_cli_disconnect(s1)}
              : s1 \in W}

\* ------------------------------------------------------- main.py (routes)
Driver_is_connected(s) ==
    IF s.backend = "usque" THEN UsqueApp_is_connected(s) ELSE OfficialApp_is_connected(s)

Driver_connect(s) ==
    IF s.backend = "usque" THEN UsqueApp_connect(s) ELSE OfficialApp_connect(s)

Driver_set_custom_endpoint(s, a) ==
    IF s.backend = "usque" THEN UsqueApp_set_custom_endpoint(s, a)
    ELSE OfficialApp_set_custom_endpoint(s, a)

Driver_disconnect(s) ==
    IF s.backend = "usque" THEN UsqueApp_disconnect(s) ELSE OfficialApp_disconnect(s)

Driver_set_mode(s, m) ==
    IF s.backend = "usque" THEN UsqueApp_set_mode(s, m) ELSE OfficialApp_set_mode(s, m)

\* WarpController.switch_backend(new_backend): the same backend returns the
\* instance; otherwise disconnect() of the current driver, in tun mode its
\* _cleanup_tun_routing() once more, the wait for port 1080 (free once the
\* services are stopped), and a new driver object of the new class, whose
\* mode is read from WARP_MODE, the mode set last
App_switch_backend(s, b) ==
    IF s.backend = b THEN {Out(s, TRUE, {})}
    ELSE {LET s1 == IF s.mode # "tun" THEN o.s
                    ELSE IF s.backend = "usque" THEN UsqueApp_cleanup_tun_routing(o.s)
                    ELSE OfficialApp_cleanup_tun_routing(o.s)
              c1 == IF s.mode # "tun" THEN {}
                    ELSE IF s.backend = "usque" THEN UsqueApp_cleanup_cmds(o.s)
                    ELSE OfficialApp_cleanup_cmds(o.s)
          IN Out([s1 EXCEPT !.backend = b, !.proto = "masque", !.saved = FALSE],
                 TRUE, o.cmds \cup c1)
          : o \in Driver_disconnect(s)}

Apply(s) ==
    /\ mode' = s.mode
    /\ preferred_protocol' = s.proto
    /\ configExists' = s.config
    /\ appUp' = s.up
    /\ tunDev' = s.tun
    /\ warpOn' = s.warp
    /\ listener' = s.listen
    /\ rules' = s.rules
    /\ table100' = s.table
    /\ endpointRoute' = s.ep
    /\ defaultRoute' = s.dflt
    /\ saved' = s.saved
    /\ endpointOverride' = s.override
    /\ nftAllow' = s.allow
    /\ appBackend' = s.backend
    /\ UNCHANGED <<containerized, kernelDupRules, poolVars, tryVars, wsVars>>

ServedInOrder(op, a, by, ok, c, st) ==
    /\ lastCall' = [op |-> op, arg |-> a, by |-> by, ok |-> ok,
                    wasConn |-> Driver_is_connected(Cur), steps |-> st]
    /\ cmds' = c

Served(op, a, by, ok, c) == ServedInOrder(op, a, by, ok, c, <<>>)

\* POST /api/connect
Api_connect ==
    /\ calls < MaxCalls /\ calls' = calls + 1
    /\ followUp = "none"
    /\ \E o \in Driver_connect(Cur) :
         Apply(o.s) /\ Served("connect", "", "driver", o.ok, o.cmds)
    /\ UNCHANGED <<pending, detached, followUp, backVars>>

\* POST /api/disconnect
Api_disconnect ==
    /\ calls < MaxCalls /\ calls' = calls + 1
    /\ followUp = "none"
    /\ \E o \in Driver_disconnect(Cur) :
         Apply(o.s) /\ ServedInOrder("disconnect", "", "driver", o.ok, o.cmds, o.steps)
    /\ UNCHANGED <<pending, detached, followUp, backVars>>

\* POST /api/config/mode: run_blocking(controller.set_mode, mode); when it
\* succeeded the route goes on to connect in the new mode
Api_set_mode(m) ==
    /\ calls < MaxCalls /\ calls' = calls + 1
    /\ followUp = "none"
    /\ \E o \in Driver_set_mode(Cur, m) :
         /\ Apply(o.s)
         /\ Served("set_mode", m, "driver", o.ok, o.cmds)
         /\ followUp' = IF o.ok THEN "connect" ELSE "none"
    /\ UNCHANGED <<pending, detached, backVars>>

\* POST /api/backend/switch: run_blocking(WarpController.switch_backend,
\* backend); the route goes on to connect the driver it returns
Api_switch_backend(b) ==
    /\ calls < MaxCalls /\ calls' = calls + 1
    /\ followUp = "none"
    /\ \E o \in App_switch_backend(Cur, b) :
         Apply(o.s) /\ Served("switch_backend", b, "driver", o.ok, o.cmds)
    /\ followUp' = "connect"
    /\ detached' = IF pending # "none" /\ detached = NoObj /\ b # appBackend
                      THEN [mode |-> mode, proto |-> preferred_protocol, saved |-> saved]
                      ELSE detached
    /\ UNCHANGED <<pending, backVars>>

\* the second call of the set_mode and switch_backend routes:
\* run_blocking(controller.connect)
Api_reconnect ==
    /\ followUp = "connect"
    /\ \E o \in Driver_connect(Cur) :
         Apply(o.s) /\ Served("connect", "", "route", o.ok, o.cmds)
    /\ followUp' = "none"
    /\ UNCHANGED <<calls, pending, detached, backVars>>

\* POST /api/config/protocol, in the event loop: wireguard is refused (400)
\* unless the backend is official and the mode is tun; a driver without
\* set_protocol answers masque; otherwise set_protocol is handed to the
\* thread pool
Api_set_protocol(p) ==
    /\ calls < MaxCalls /\ calls' = calls + 1
    /\ pending = "none"
    /\ followUp = "none"
    /\ IF p = "wireguard" /\ (appBackend # "official" \/ mode # "tun")
          THEN Served("set_protocol", p, "route", FALSE, {}) /\ UNCHANGED pending
          ELSE IF appBackend # "official"
                  THEN Served("set_protocol", p, "route", TRUE, {}) /\ UNCHANGED pending
                  ELSE Served("set_protocol", p, "queued", FALSE, {}) /\ pending' = p
    /\ Apply(Cur)
    /\ UNCHANGED <<detached, followUp, backVars>>

\* the driver object the queued call was handed: the current one, or the
\* one a switch_backend has replaced since, on the same host
Bound ==
    IF detached = NoObj THEN Cur
    ELSE [Cur EXCEPT !.backend = "official", !.mode = detached.mode,
                     !.proto = detached.proto, !.saved = detached.saved]

\* what a call on the bound object leaves: the host, and the fields of the
\* current driver object unless it is the bound one
Unbound(s) ==
    IF detached = NoObj THEN s
    ELSE [s EXCEPT !.backend = appBackend, !.mode = mode,
                   !.proto = preferred_protocol, !.saved = saved]

\* run_blocking(controller.set_protocol, protocol), in the thread pool
Api_set_protocol_run ==
    /\ pending # "none"
    /\ \E o \in OfficialApp_set_protocol(Bound, pending) :
         /\ Apply(Unbound(o.s))
         /\ ServedInOrder("set_protocol", pending, "driver", o.ok, o.cmds, o.steps)
    /\ pending' = "none"
    /\ detached' = NoObj
    /\ UNCHANGED <<calls, followUp, backVars>>

\* POST /api/config/endpoint
Api_set_endpoint(a) ==
    /\ calls < MaxCalls /\ calls' = calls + 1
    /\ followUp = "none"
    /\ \E o \in Driver_set_custom_endpoint(Cur, a) :
         Apply(o.s) /\ ServedInOrder("set_endpoint", a, "driver", o.ok, o.cmds, o.steps)
    /\ UNCHANGED <<pending, detached, followUp, backVars>>

\* the usque tunnel process exits by itself
AppTunnelDies ==
    /\ tunDev = "usque"
    /\ \E s \in AppStop(Cur, {"usque-tun"}) : Apply(s)
    /\ UNCHANGED <<calls, pending, detached, followUp, lastCall, cmds, backVars>>

\* the WARP client loses its connection by itself
AppWarpDrops ==
    /\ warpOn
    /\ \E s \in OfficialApp_cli_disconnect(Cur) : s.warp = FALSE /\ Apply(s)
    /\ UNCHANGED <<calls, pending, detached, followUp, lastCall, cmds, backVars>>

\* ------------------------------------------------------------ specification
\* main.py startup_event: get_instance() has built the configured driver and
\* connect_in_background(controller) has been scheduled on the event loop
InitHost ==
    /\ svc = [x \in Services |-> "STOPPED"]
    /\ port = "none"
    /\ daemonReady = FALSE /\ warpWant = FALSE /\ warpConnected = FALSE
    /\ regUsque = FALSE /\ regOfficial = FALSE
    /\ egressIp = 1
    /\ now = 0 /\ ticks = 0 /\ ops = 0
    /\ statusCache = [i \in InstIds |-> None]
    /\ statusCacheTime = [i \in InstIds |-> 0]
    /\ cachedIp = [i \in InstIds |-> None]
    /\ cacheTime = [i \in InstIds |-> 0]
    /\ stack = [t \in Tasks |-> <<>>]
    /\ drv = [t \in Tasks |-> 1]
    /\ n = [t \in Tasks |-> 0]
    /\ stamp = [t \in Tasks |-> [a |-> 0, b |-> 0]]
    /\ res = [t \in Tasks |-> FALSE]
    /\ log = [t \in Tasks |-> {}]
    /\ pre = [t \in Tasks |-> [conn |-> FALSE, held |-> FALSE, proc |-> "none", result |-> FALSE]]
    /\ started = [t \in Tasks |-> {}]
    /\ ret = [t \in Tasks |-> NoRet]

InitBackend ==
    /\ InitHost
    /\ envBackend \in Backends
    /\ instance = 1
    /\ currentBackend = envBackend
    /\ kind = [i \in InstIds |-> IF i = 1 THEN envBackend ELSE "none"]
    /\ pc = [t \in Tasks |-> IF t = "bg" THEN Entry("connect", envBackend)
                                         ELSE "idle"]
    /\ arg = [t \in Tasks |-> envBackend]

Modes == {"proxy", "tun"}
Protocols == {"masque", "wireguard"}
\* the endpoint field of the request: empty, or an address
Endpoints == {"", "ep"}
NoCall == [op |-> "none", arg |-> "", by |-> "none", ok |-> FALSE, wasConn |-> FALSE,
           steps |-> <<>>]

\* controller-app main.py startup: the driver of WARP_BACKEND in WARP_MODE,
\* nothing started yet
InitDriver(modes) ==
    /\ appBackend = envBackend
    /\ mode \in modes
    /\ preferred_protocol = "masque"
    /\ configExists = FALSE
    /\ appUp = {}
    /\ tunDev = "none"
    /\ warpOn = FALSE
    /\ listener = "none"
    /\ rules = {} /\ table100 = {} /\ endpointRoute = {}
    /\ defaultRoute = "orig"
    /\ saved = FALSE
    /\ endpointOverride = [b \in Backends |-> ""]
    /\ nftAllow = {}
    /\ pending = "none"
    /\ detached = NoObj
    /\ followUp = "none"
    /\ calls = 0
    /\ lastCall = NoCall
    /\ cmds = {}
    /\ threads = [w \in PoolWorkers |-> "idle"]
    /\ polls = [w \in PoolWorkers |-> 0]
    /\ work_queue = <<>>
    /\ submitted = 0
    /\ tryCall = "none" /\ tryAt = "idle" /\ tryN = 0
    /\ lastRun = NoRun
    /\ opRet = NoOpRet
    /\ failed = {}
    /\ loop_set = FALSE /\ flush_scheduled = FALSE
    /\ pending_logs = <<>> /\ emitted = 0
    /\ afterLoop = {} /\ dropped = {} /\ broadcastLog = {}
    /\ fpc = [f \in FlushTasks |-> "none"]
    /\ active_connections = <<>>
    /\ client = [c \in Clients |-> "new"]
    /\ bc = [b \in Broadcasters |-> NoBroadcast]
    /\ returned = NoBroadcast
    /\ statusSent = 0

\* backend/: proxy mode is the only mode
Init ==
    /\ InitBackend /\ InitDriver({"proxy"})
    /\ containerized = TRUE
    /\ kernelDupRules = FALSE

Next ==
    \/ \E t \in Requesters : StartConnect(t)
    \/ \E t \in Requesters : StartDisconnect(t)
    \/ \E t \in Requesters : StartRotate(t)
    \/ \E t \in Requesters, b \in SwitchNames : StartSwitch(t, b)
    \/ \E t \in Requesters, b \in SwitchNames : RejectSwitch(t, b)
    \/ \E t \in Tasks : Usque_initialize(t)
    \/ \E t \in Tasks : Usque_connect(t)
    \/ \E t \in Tasks : Usque_connect_proxy_stop(t)
    \/ \E t \in Tasks : Usque_connect_proxy_start(t)
    \/ \E t \in Tasks : Usque_connect_proxy_poll(t)
    \/ \E t \in Tasks : Usque_disconnect(t)
    \/ \E t \in Tasks : Official_connect_register(t)
    \/ \E t \in Tasks : Official_connect_daemon_check(t)
    \/ \E t \in Tasks : Official_stop_socat(t)
    \/ \E t \in Tasks : Official_connect_stop_services(t)
    \/ \E t \in Tasks : Official_start_services_proxy(t)
    \/ \E t \in Tasks : Official_ensure_socat(t)
    \/ \E t \in Tasks : Official_start_services_poll(t)
    \/ \E t \in Tasks : Official_connect_cli_disconnect(t)
    \/ \E t \in Tasks : Official_connect_cli_connect(t)
    \/ \E t \in Tasks : Official_connect_result(t)
    \/ \E t \in Tasks : Official_disconnect(t)
    \/ \E t \in Tasks : Official_disconnect_stop_services(t)
    \/ \E t \in Tasks : wait_for_status(t)
    \/ \E t \in Tasks : rotate_ip_simple(t)
    \/ \E t \in Tasks : switch_backend_same(t)
    \/ \E t \in Tasks : switch_backend_poll(t)
    \/ \E t \in Tasks : switch_backend_kill(t)
    \/ UsqueBinds \/ SocatBinds \/ DaemonUp \/ WarpConnects \/ OrphanExits

Spec == Init /\ [][Next]_vars

NextSeq ==
    \/ \E t \in SeqTasks : StartConnect(t)
    \/ \E t \in SeqTasks : StartDisconnect(t)
    \/ \E t \in SeqTasks : StartRotate(t)
    \/ \E t \in SeqTasks, b \in SwitchNames : StartSwitch(t, b)
    \/ \E t \in SeqTasks, b \in SwitchNames : RejectSwitch(t, b)
    \/ \E t \in SeqTasks : StartGetStatus(t)
    \/ \E t \in SeqTasks : get_status_cached(t)
    \/ \E t \in SeqTasks : get_status_uncached(t)
    \/ \E t \in SeqTasks : get_status_fetch(t)
    \/ \E t \in SeqTasks : Usque_initialize(t)
    \/ \E t \in SeqTasks : Usque_connect(t)
    \/ \E t \in SeqTasks : Usque_connect_proxy_stop(t)
    \/ \E t \in SeqTasks : Usque_connect_proxy_start(t)
    \/ \E t \in SeqTasks : Usque_connect_proxy_poll(t)
    \/ \E t \in SeqTasks : Usque_disconnect(t)
    \/ \E t \in SeqTasks : Official_connect_register(t)
    \/ \E t \in SeqTasks : Official_connect_daemon_check(t)
    \/ \E t \in SeqTasks : Official_stop_socat(t)
    \/ \E t \in SeqTasks : Official_connect_stop_services(t)
    \/ \E t \in SeqTasks : Official_start_services_proxy(t)
    \/ \E t \in SeqTasks : Official_ensure_socat(t)
    \/ \E t \in SeqTasks : Official_start_services_poll(t)
    \/ \E t \in SeqTasks : Official_connect_cli_disconnect(t)
    \/ \E t \in SeqTasks : Official_connect_cli_connect(t)
    \/ \E t \in SeqTasks : Official_connect_result(t)
    \/ \E t \in SeqTasks : Official_disconnect(t)
    \/ \E t \in SeqTasks : Official_disconnect_stop_services(t)
    \/ \E t \in SeqTasks : wait_for_status(t)
    \/ \E t \in SeqTasks : rotate_ip_simple(t)
    \/ \E t \in SeqTasks : switch_backend_same(t)
    \/ \E t \in SeqTasks : switch_backend_poll(t)
    \/ \E t \in SeqTasks : switch_backend_kill(t)
    \/ UsqueBinds \/ SocatBinds \/ DaemonUp \/ WarpConnects \/ OrphanExits
    \/ Tick

SpecSeq == Init /\ [][NextSeq]_vars

\* The step task t is about to take awaits an external command that was
\* started without a timeout: _run_command(cmd) with timeout=None for
\* supervisorctl and ss (is_connected, _is_daemon_responsive, _ensure_socat,
\* _stop_services, the start and stop of a service), and the
\* process.communicate() of `usque register`.  warp-cli through
\* execute_command (10 s) and curl (8 s) carry a timeout; the port probe of
\* switch_backend is a connect to 127.0.0.1, not a command.
NoTimeoutLabels ==
    {"uc_check", "uc_stop", "uc_start", "uc_poll", "ud_stop",
     "oc_daemon", "oc_stopsvc", "oc_stopwarp", "oc_startsvc", "os_socat",
     "oc_socat", "os_poll", "od_stop", "od_stopwarp", "gs_conn"} \cup WaitLabels

AwaitsUnbounded(t) ==
    \/ pc[t] \in NoTimeoutLabels
    \/ pc[t] = "uc_init" /\ ~regUsque

\* one step of an operation in progress
Step(t) ==
    \/ get_status_cached(t) \/ get_status_uncached(t) \/ get_status_fetch(t)
    \/ Usque_initialize(t) \/ Usque_connect(t) \/ Usque_connect_proxy_stop(t)
    \/ Usque_connect_proxy_start(t) \/ Usque_connect_proxy_poll(t)
    \/ Usque_disconnect(t)
    \/ Official_connect_register(t) \/ Official_connect_daemon_check(t)
    \/ Official_stop_socat(t) \/ Official_connect_stop_services(t)
    \/ Official_start_services_proxy(t) \/ Official_ensure_socat(t)
    \/ Official_start_services_poll(t) \/ Official_connect_cli_disconnect(t)
    \/ Official_connect_cli_connect(t) \/ Official_connect_result(t)
    \/ Official_disconnect(t) \/ Official_disconnect_stop_services(t)
    \/ wait_for_status(t) \/ rotate_ip_simple(t)
    \/ switch_backend_same(t) \/ switch_backend_poll(t) \/ switch_backend_kill(t)

\* The event loop resumes a coroutine whose awaited call has completed; a
\* call bounded by a timeout completes, one without a timeout need not.
Fairness == \A t \in SeqTasks : WF_vars(~AwaitsUnbounded(t) /\ Step(t))

SpecFair == Init /\ [][NextSeq]_vars /\ Fairness

\* controller-app/
InitApp ==
    /\ InitBackend /\ InitDriver(Modes)
    /\ containerized \in BOOLEAN
    /\ kernelDupRules \in BOOLEAN

NextApp ==
    \/ Api_connect
    \/ Api_disconnect
    \/ \E m \in Modes : Api_set_mode(m)
    \/ \E b \in Backends : Api_switch_backend(b)
    \/ Api_reconnect
    \/ \E p \in Protocols : Api_set_protocol(p)
    \/ Api_set_protocol_run
    \/ \E a \in Endpoints : Api_set_endpoint(a)
    \/ AppTunnelDies
    \/ AppWarpDrops

SpecApp == InitApp /\ [][NextApp]_vars

\* controller-app/ main.py: the thread pool behind run_blocking
DriverVars == <<appBackend, mode, preferred_protocol, configExists, appUp,
                tunDev, warpOn, listener, rules, table100, endpointRoute,
                defaultRoute, saved, endpointOverride, nftAllow,
                kernelDupRules, pending, detached, containerized, followUp,
                calls, lastCall, cmds>>

PoolCalls == {"connect", "get_status"}

\* run_blocking(func): loop.run_in_executor(_thread_pool, func) puts the call
\* on the pool's queue; the route awaits its result
run_blocking(f) ==
    /\ submitted < MaxSubmitted
    /\ submitted' = submitted + 1
    /\ work_queue' = Append(work_queue, f)
    /\ UNCHANGED <<threads, polls, backVars, DriverVars, tryVars, wsVars>>

\* a worker thread without work takes the oldest call of the queue
WorkerTakes(w) ==
    /\ threads[w] = "idle" /\ work_queue # <<>>
    /\ threads' = [threads EXCEPT ![w] = Head(work_queue)]
    /\ polls' = [polls EXCEPT ![w] = 0]
    /\ work_queue' = Tail(work_queue)
    /\ UNCHANGED <<submitted, backVars, DriverVars, tryVars, wsVars>>

\* wait_for_status("connected", timeout=600) inside connect(): the client is
\* not connected yet, the worker thread sleeps 2 s and polls again
ConnectPolls(w) ==
    /\ threads[w] = "connect" /\ polls[w] < MaxPolls
    /\ polls' = [polls EXCEPT ![w] = @ + 1]
    /\ UNCHANGED <<threads, work_queue, submitted, backVars, DriverVars, tryVars, wsVars>>

\* connect() returns: the client connected, or the deadline has passed
ConnectReturns(w) ==
    /\ threads[w] = "connect"
    /\ threads' = [threads EXCEPT ![w] = "idle"]
    /\ UNCHANGED <<polls, work_queue, submitted, backVars, DriverVars, tryVars, wsVars>>

\* get_status() returns on its worker thread
StatusReturns(w) ==
    /\ threads[w] = "get_status"
    /\ threads' = [threads EXCEPT ![w] = "idle"]
    /\ UNCHANGED <<polls, work_queue, submitted, backVars, DriverVars, tryVars, wsVars>>

NextPool ==
    \/ \E f \in PoolCalls : run_blocking(f)
    \/ \E w \in PoolWorkers : WorkerTakes(w)
    \/ \E w \in PoolWorkers : ConnectPolls(w)
    \/ \E w \in PoolWorkers : ConnectReturns(w)
    \/ \E w \in PoolWorkers : StatusReturns(w)

SpecPool == Init /\ [][NextPool]_vars

\* A worker thread runs what it has: a call of the pool returns or polls
\* again until the deadline of its polling, and an idle thread takes queued
\* work.
PoolFairness ==
    \A w \in PoolWorkers :
        /\ WF_vars(WorkerTakes(w))
        /\ WF_vars(ConnectPolls(w) \/ ConnectReturns(w))
        /\ WF_vars(StatusReturns(w))

SpecPoolFair == Init /\ [][NextPool]_vars /\ PoolFairness

\* backend/: external commands and the exceptions of a driver operation
\* What an external command does: it exits 0, exits nonzero, outlives the
\* timeout of the call, cannot be started, or writes bytes that do not decode.
ExtHow == {"exit0", "nonzero", "timeout", "not_started", "undecodable"}
\* What it writes: nothing, the RUNNING line of supervisorctl, the listening
\* socket of ss, a JSON object with the address, a JSON object that reports
\* a failure of the lookup, JSON that is not an object, anything else.
Outputs == {"", "RUNNING", "listening", "json_object", "json_failure",
            "json_other", "garbage"}
Exceptions == {"TimeoutError", "OSError", "UnicodeDecodeError",
               "JSONDecodeError", "AttributeError"}
\* wait_for(..., timeout=None) never times out
Ext(timed) == {e \in [how : ExtHow, out : Outputs] : e.how = "timeout" => timed}

RunCommandCatchesTimeoutOnly == {"TimeoutError"}

\* _run_command: except asyncio.TimeoutError, then except Exception
RunCommandCatches == Exceptions

\* _run_command, the try body: create_subprocess_*, wait_for(communicate),
\* decode
run_command_try(e) ==
    CASE e.how = "not_started" -> [exc |-> "OSError", rc |-> 0, out |-> ""]
      [] e.how = "timeout" -> [exc |-> "TimeoutError", rc |-> 0, out |-> ""]
      [] e.how = "undecodable" -> [exc |-> "UnicodeDecodeError", rc |-> 0, out |-> ""]
      [] e.how = "exit0" -> [exc |-> "none", rc |-> 0, out |-> e.out]
      [] e.how = "nonzero" -> [exc |-> "none", rc |-> 1, out |-> e.out]

\* _run_command: a caught exception becomes the tuple (-1, "", message)
run_command(e) ==
    LET r == run_command_try(e)
    IN IF r.exc \in RunCommandCatches THEN [exc |-> "none", rc |-> -1, out |-> ""]
       ELSE r

\* try: ... except <catches>: an exception of the body that a clause names
\* is handled, any other leaves the function
Escapes(x, catches) == IF x \in catches THEN "none" ELSE x
\* except Exception
AnyException == Exceptions

TryOps == {"initialize", "connect", "disconnect", "is_connected", "get_status"}
TryFrame == UNCHANGED <<backVars, DriverVars, poolVars, wsVars>>
Noted(e) == IF e.how = "exit0" THEN failed ELSE failed \cup {<<tryAt, e.how>>}

\* an operation of the usque driver is called
StartTry(o) ==
    /\ tryCall = "none"
    /\ tryCall' = o
    /\ tryAt' = CASE o \in {"initialize", "connect"} -> "register"
                   [] o = "disconnect" -> "dstop"
                   [] OTHER -> "status"
    /\ tryN' = 0 /\ failed' = {} /\ opRet' = NoOpRet
    /\ UNCHANGED lastRun
    /\ TryFrame

\* the operation returns v, or raises x, to its caller
TryReturnsWith(v, x, i) ==
    /\ opRet' = [op |-> tryCall, exc |-> x, val |-> IF x = "none" THEN v ELSE "none",
                 at |-> tryN, info |-> i]
    /\ tryCall' = "none" /\ tryAt' = "idle" /\ tryN' = 0

TryReturns(v, x) ==
    /\ opRet' = [op |-> tryCall, exc |-> x, val |-> IF x = "none" THEN v ELSE "none",
                 at |-> tryN, info |-> "none"]
    /\ tryCall' = "none" /\ tryAt' = "idle" /\ tryN' = 0

TryGoto(l, k) == tryAt' = l /\ tryN' = k /\ UNCHANGED <<tryCall, opRet>>

Bool(b) == IF b THEN "true" ELSE "false"

\* UsqueController.initialize: with no configuration file it runs `usque
\* register` (create_subprocess_exec, communicate without timeout) and
\* returns returncode == 0; except Exception returns False
Try_initialize ==
    /\ tryAt = "register"
    /\ \E exists \in BOOLEAN, e \in Ext(FALSE) :
         LET x == IF exists THEN "none"
                  ELSE CASE e.how = "not_started" -> "OSError"
                         [] e.how = "undecodable" -> "UnicodeDecodeError"
                         [] OTHER -> "none"
             ok == exists \/ (x = "none" /\ e.how = "exit0")
         IN /\ failed' = IF exists THEN failed ELSE Noted(e)
            /\ IF ok /\ tryCall = "connect" THEN TryGoto("status", 0)
               ELSE TryReturns(Bool(ok), Escapes(x, AnyException))
    /\ UNCHANGED lastRun
    /\ TryFrame

\* what follows is_connected() = b in the operation in progress: the answer
\* of is_connected; the status of get_status or its IP lookup; in connect,
\* "already running" before _connect_proxy and the 15 polls inside it
Connected(b) ==
    CASE tryCall = "is_connected" -> TryReturns(Bool(b), "none")
      [] tryCall = "get_status" ->
           IF b THEN TryGoto("api", 1) ELSE TryReturns("disconnected", "none")
      [] OTHER ->
           IF b THEN TryReturns("true", "none")
           ELSE IF tryN = 0 THEN TryGoto("stop", 0)
           ELSE IF tryN < TryPolls THEN TryGoto("status", tryN + 1)
           ELSE TryReturns("false", "none")

\* _is_proxy_connected: supervisorctl status usque; rc != 0 or no RUNNING is
\* False; except Exception is False
Try_is_proxy_connected ==
    /\ tryAt = "status"
    /\ \E e \in Ext(FALSE) :
         LET r == run_command(e)
         IN /\ lastRun' = r /\ failed' = Noted(e)
            /\ IF r.exc = "none" /\ r.rc = 0 /\ r.out = "RUNNING"
                  THEN TryGoto("port", tryN)
                  ELSE Connected(FALSE)
    /\ TryFrame

\* _is_port_open: ss -lnt; the port shows in stdout; except Exception is False
Try_is_port_open ==
    /\ tryAt = "port"
    /\ \E e \in Ext(FALSE) :
         LET r == run_command(e)
         IN /\ lastRun' = r /\ failed' = Noted(e)
            /\ Connected(r.exc = "none" /\ r.out = "listening")
    /\ TryFrame

\* _connect_proxy: supervisorctl stop usque, its result unread; an exception
\* anywhere in _connect_proxy returns False
Try_connect_proxy_stop ==
    /\ tryAt = "stop"
    /\ \E e \in Ext(FALSE) :
         LET r == run_command(e)
         IN /\ lastRun' = r /\ failed' = Noted(e)
            /\ IF r.exc = "none" THEN TryGoto("start", 0)
                                 ELSE TryReturns("false", "none")
    /\ TryFrame

\* _connect_proxy: supervisorctl start usque; rc != 0 returns False
Try_connect_proxy_start ==
    /\ tryAt = "start"
    /\ \E e \in Ext(FALSE) :
         LET r == run_command(e)
         IN /\ lastRun' = r /\ failed' = Noted(e)
            /\ IF r.exc = "none" /\ r.rc = 0 THEN TryGoto("status", 1)
                                              ELSE TryReturns("false", "none")
    /\ TryFrame

\* UsqueController.disconnect: supervisorctl stop usque, its result unread,
\* returns True; except Exception returns False
Try_disconnect ==
    /\ tryAt = "dstop"
    /\ \E e \in Ext(FALSE) :
         LET r == run_command(e)
         IN /\ lastRun' = r /\ failed' = Noted(e)
            /\ TryReturns(Bool(r.exc = "none"), "none")
    /\ TryFrame

\* _parse_ip_data(data, api_url) of the lookup numbered k: ip-api.com (1)
\* gives the record only for status "success" and {} otherwise; ipinfo.io (2)
\* and ifconfig.me (3) give a record whatever the object holds, with "Unknown"
\* for what is missing
parse_ip_data(k, out) ==
    IF out = "json_object" THEN "data"
    ELSE IF k = 1 THEN "empty" ELSE "unknown"

\* _fetch_ip_info: one of the three lookups, curl with timeout=8; with rc 0
\* and output, json.loads and `return self._parse_ip_data(...)`; output that
\* is not JSON is skipped (JSONDecodeError), any other exception of the
\* lookup is passed over; None after the third.  _get_status_uncached merges
\* a result that is not empty; the status stays that of is_connected
Try_fetch_ip_info ==
    /\ tryAt = "api"
    /\ \E e \in Ext(TRUE) :
         LET r == run_command(e)
             x == IF r.exc # "none" THEN r.exc
                  ELSE IF r.rc # 0 \/ r.out = "" THEN "none"
                  ELSE IF r.out \in {"json_object", "json_failure"} THEN "none"
                  ELSE IF r.out = "json_other" THEN "AttributeError"
                  ELSE "JSONDecodeError"
             parsed == r.exc = "none" /\ r.rc = 0
                       /\ r.out \in {"json_object", "json_failure"}
             info == parse_ip_data(tryN, r.out)
         IN /\ lastRun' = r /\ failed' = Noted(e)
            /\ IF parsed
                  THEN TryReturnsWith("connected", "none",
                                      IF info = "empty" THEN "none" ELSE info)
               ELSE IF Escapes(x, {"JSONDecodeError"} \cup AnyException) # "none"
                  THEN TryReturns("none", x)
               ELSE IF tryN < 3 THEN TryGoto("api", tryN + 1)
               ELSE TryReturns("connected", "none")
    /\ TryFrame

NextTry ==
    \/ \E o \in TryOps : StartTry(o)
    \/ Try_initialize
    \/ Try_is_proxy_connected
    \/ Try_is_port_open
    \/ Try_connect_proxy_stop
    \/ Try_connect_proxy_start
    \/ Try_disconnect
    \/ Try_fetch_ip_info

SpecTry == Init /\ [][NextTry]_vars

\* backend/ warp_controller.py: the factory by itself, from the class as it
\* is defined (no instance, no recorded name), whatever WARP_BACKEND holds
InitFactory ==
    /\ envBackend \in SwitchNames
    /\ InitHost /\ InitDriver({"proxy"})
    /\ containerized = TRUE /\ kernelDupRules = FALSE
    /\ instance = 0
    /\ currentBackend = "none"
    /\ kind = [i \in InstIds |-> "none"]
    /\ pc = [t \in Tasks |-> "idle"]
    /\ arg = [t \in Tasks |-> "none"]

FactoryFrame ==
    UNCHANGED <<hostVars, clockVars, cacheVars, pc, stack, n, stamp, res, log,
                pre, started, appVars>>

FactoryRet(t, p, ok) ==
    ret' = [ret EXCEPT ![t] = [proc |-> p, result |-> ok, status |-> None]]

\* WarpController.get_instance(), called by t
Factory_get_instance(t) ==
    /\ get_instance
    /\ instance' # instance => NextId \in InstIds
    /\ FactoryRet(t, "get_instance", ~get_instance_raises)
    /\ drv' = [drv EXCEPT ![t] = IF get_instance_raises THEN @ ELSE instance']
    /\ UNCHANGED arg
    /\ FactoryFrame

\* WarpController.get_current_backend(), called by t
Factory_get_current_backend(t) ==
    /\ arg' = [arg EXCEPT ![t] = get_current_backend]
    /\ FactoryRet(t, "get_current_backend", TRUE)
    /\ UNCHANGED <<factoryVars, drv>>
    /\ FactoryFrame

\* WarpController.switch_backend(b), called by t: what it does to the factory
Factory_switch_backend(t, b) ==
    /\ IF ~ValidBackendName(b)
          THEN FactoryRet(t, "switch_rejected", FALSE) /\ UNCHANGED <<factoryVars, drv>>
       ELSE IF get_current_backend = b /\ instance # 0
          THEN /\ FactoryRet(t, "switch", TRUE)
               /\ drv' = [drv EXCEPT ![t] = instance]
               /\ UNCHANGED factoryVars
          ELSE /\ NextId \in InstIds
               /\ envBackend' = b /\ currentBackend' = b
               /\ instance' = NextId
               /\ kind' = [kind EXCEPT ![NextId] = b]
               /\ drv' = [drv EXCEPT ![t] = NextId]
               /\ FactoryRet(t, "switch", TRUE)
    /\ UNCHANGED arg
    /\ FactoryFrame

NextFactory ==
    \/ \E t \in Tasks : Factory_get_instance(t)
    \/ \E t \in Tasks : Factory_get_current_backend(t)
    \/ \E t \in Tasks, b \in SwitchNames : Factory_switch_backend(t, b)

SpecFactory == InitFactory /\ [][NextFactory]_vars

\* backend/ main.py: the status_broadcast_loop (and GET /status) asks for the
\* status on its own task, "bg" once its startup connect is over, while the
\* request handler "req" serves a POST /disconnect that arrives after the
\* startup connect
StartupOver == pc["bg"] \in {"idle", "gs_hit", "gs_conn", "gs_fetch"}

DisconnectRequest(t) == StartupOver /\ StartDisconnect(t)

NextStatus ==
    \/ \E t \in Requesters : DisconnectRequest(t)
    \/ \E t \in SeqTasks : StartGetStatus(t)
    \/ \E t \in SeqTasks : get_status_cached(t)
    \/ \E t \in SeqTasks : get_status_uncached(t)
    \/ \E t \in SeqTasks : get_status_fetch(t)
    \/ \E t \in Tasks : Usque_initialize(t)
    \/ \E t \in Tasks : Usque_connect(t)
    \/ \E t \in Tasks : Usque_connect_proxy_stop(t)
    \/ \E t \in Tasks : Usque_connect_proxy_start(t)
    \/ \E t \in Tasks : Usque_connect_proxy_poll(t)
    \/ \E t \in Tasks : Usque_disconnect(t)
    \/ \E t \in Tasks : Official_connect_register(t)
    \/ \E t \in Tasks : Official_connect_daemon_check(t)
    \/ \E t \in Tasks : Official_stop_socat(t)
    \/ \E t \in Tasks : Official_connect_stop_services(t)
    \/ \E t \in Tasks : Official_start_services_proxy(t)
    \/ \E t \in Tasks : Official_ensure_socat(t)
    \/ \E t \in Tasks : Official_start_services_poll(t)
    \/ \E t \in Tasks : Official_connect_cli_disconnect(t)
    \/ \E t \in Tasks : Official_connect_cli_connect(t)
    \/ \E t \in Tasks : Official_connect_result(t)
    \/ \E t \in Tasks : Official_disconnect(t)
    \/ \E t \in Tasks : Official_disconnect_stop_services(t)
    \/ \E t \in Tasks : wait_for_status(t)
    \/ UsqueBinds \/ SocatBinds \/ DaemonUp \/ WarpConnects \/ OrphanExits
    \/ Tick

SpecStatus == Init /\ [][NextStatus]_vars

\* ------------------------------------- backend/ utils: logs and WebSockets
WsFrame == UNCHANGED <<backVars, DriverVars, poolVars, tryVars>>

SeqSet(L) == {L[i] : i \in 1..Len(L)}

\* list.remove(x) for each x of D (no WebSocket is in the list twice)
Without(L, D) == SelectSeq(L, LAMBDA x : x \notin D)

\* deque(maxlen=PendingMax).append(e): the oldest entry goes when full
DequeAppend(P, e) == IF Len(P) < PendingMax THEN Append(P, e) ELSE Append(Tail(P), e)

\* broadcast(message) begins: `for connection in self.active_connections`
\* takes the first connection and awaits its send_json
BroadcastBegins(m, L) ==
    [at |-> "send", msg |-> m, idx |-> 1, cur |-> L[1], dead |-> {},
     sent |-> [c \in Clients |-> 0], through |-> SeqSet(L)]

\* _flush_pending_logs(), the loop `while self._pending_logs`, with P
\* pending and L active: with no connection every broadcast returns at once
\* and the loop empties P; otherwise the first entry is popped and its
\* broadcast awaits the first send.  prev is the task's last broadcast.
Drain(P, L, prev) ==
    IF P = <<>>
       THEN [state |-> "none", pending |-> P, done |-> {},
             bcf |-> [prev EXCEPT !.at = "idle"]]
    ELSE IF L = <<>>
       THEN [state |-> "none", pending |-> <<>>, done |-> SeqSet(P),
             bcf |-> [NoBroadcast EXCEPT !.msg = P[Len(P)]]]
       ELSE [state |-> "sending", pending |-> Tail(P), done |-> {},
             bcf |-> BroadcastBegins(Head(P), L)]

\* main.py startup_event: log_collector.set_loop(loop)
set_loop ==
    /\ ~loop_set
    /\ loop_set' = TRUE
    /\ UNCHANGED <<flush_scheduled, pending_logs, emitted, afterLoop, dropped,
                   broadcastLog, fpc, active_connections, client, bc, returned,
                   statusSent>>
    /\ WsFrame

\* LogCollector.emit(record): the entry is appended; when no flush is
\* scheduled the flag is set, and _schedule_flush is handed to the loop only
\* if a loop is set and running.  (call_soon_threadsafe on a running loop
\* does not raise; the except branch is not taken.)
emit ==
    /\ emitted < MaxEmits
    /\ emitted' = emitted + 1
    /\ pending_logs' = DequeAppend(pending_logs, emitted + 1)
    /\ dropped' = IF Len(pending_logs) < PendingMax THEN dropped
                  ELSE dropped \cup {Head(pending_logs)}
    /\ afterLoop' = IF loop_set THEN afterLoop \cup {emitted + 1} ELSE afterLoop
    /\ IF flush_scheduled THEN UNCHANGED <<flush_scheduled, fpc>>
       ELSE /\ flush_scheduled' = TRUE
            /\ IF loop_set
                  THEN \E f \in FlushTasks :
                          /\ fpc[f] = "none"
                          /\ \A g \in FlushTasks : fpc[g] = "none" => f <= g
                          /\ fpc' = [fpc EXCEPT ![f] = "queued"]
                  ELSE UNCHANGED fpc
    /\ UNCHANGED <<loop_set, broadcastLog, active_connections, client, bc,
                   returned, statusSent>>
    /\ WsFrame

\* LogCollector._schedule_flush(), run by the loop: create_task, and the
\* task begins its asyncio.sleep(0.1)
schedule_flush(f) ==
    /\ fpc[f] = "queued"
    /\ fpc' = [fpc EXCEPT ![f] = "sleeping"]
    /\ UNCHANGED <<loop_set, flush_scheduled, pending_logs, emitted, afterLoop,
                   dropped, broadcastLog, active_connections, client, bc,
                   returned, statusSent>>
    /\ WsFrame

\* LogCollector._flush_pending_logs() after the sleep: the flag is reset and
\* the pending entries are broadcast one by one
flush_pending_logs(f) ==
    /\ fpc[f] = "sleeping"
    /\ flush_scheduled' = FALSE
    /\ LET d == Drain(pending_logs, active_connections, bc[f])
       IN /\ fpc' = [fpc EXCEPT ![f] = d.state]
          /\ pending_logs' = d.pending
          /\ broadcastLog' = broadcastLog \cup d.done
          /\ bc' = [bc EXCEPT ![f] = d.bcf]
    /\ UNCHANGED <<loop_set, emitted, afterLoop, dropped, active_connections,
                   client, returned, statusSent>>
    /\ WsFrame

\* main.py websocket_endpoint: manager.connect(websocket)
ws_connect(c) ==
    /\ client[c] = "new"
    /\ \A d \in Clients : d < c => client[d] # "new"
    /\ client' = [client EXCEPT ![c] = "active"]
    /\ active_connections' = Append(active_connections, c)
    /\ UNCHANGED <<logVars, bc, returned, statusSent>>
    /\ WsFrame

\* main.py websocket_endpoint, finally: manager.disconnect(websocket)
ws_disconnect(c) ==
    /\ client[c] = "active"
    /\ client' = [client EXCEPT ![c] = "closed"]
    /\ active_connections' = Without(active_connections, {c})
    /\ bc' = [b \in Broadcasters |->
                IF bc[b].at = "send" THEN [bc[b] EXCEPT !.through = @ \ {c}]
                ELSE bc[b]]
    /\ UNCHANGED <<logVars, returned, statusSent>>
    /\ WsFrame

\* main.py status_broadcast_loop: manager.broadcast(status) when there are
\* connections
status_broadcast ==
    /\ bc[StatusLoop].at = "idle"
    /\ statusSent < MaxStatus
    /\ active_connections # <<>>
    /\ statusSent' = statusSent + 1
    /\ bc' = [bc EXCEPT ![StatusLoop] = BroadcastBegins(0, active_connections)]
    /\ UNCHANGED <<logVars, active_connections, client, returned>>
    /\ WsFrame

\* ConnectionManager.broadcast of b resumes from `await connection.send_json`
\* (ok: it returned; ~ok: it raised and the connection is recorded dead); the
\* list iterator goes to the next position of the list as it is now; at its
\* end the dead connections are removed and broadcast returns.  A flush task
\* then goes on with its loop.
send_returns(b, ok) ==
    /\ bc[b].at = "send"
    /\ client[bc[b].cur] = "closed" => ~ok
    /\ LET c == bc[b].cur
           r == [bc[b] EXCEPT !.sent[c] = @ + 1,
                              !.dead = IF ok THEN @ ELSE @ \cup {c}]
           L == Without(active_connections, r.dead)
           others(B) == [x \in Broadcasters |->
                           IF x # b /\ B[x].at = "send"
                              THEN [B[x] EXCEPT !.through = @ \ r.dead]
                              ELSE B[x]]
           d == Drain(pending_logs, L, r)
       IN IF r.idx < Len(active_connections)
             THEN /\ bc' = [bc EXCEPT ![b] =
                              [r EXCEPT !.idx = @ + 1,
                                        !.cur = active_connections[r.idx + 1]]]
                  /\ UNCHANGED <<active_connections, logVars, returned>>
             ELSE /\ active_connections' = L
                  /\ returned' = [r EXCEPT !.at = "idle"]
                  /\ IF b \in FlushTasks
                        THEN /\ fpc' = [fpc EXCEPT ![b] = d.state]
                             /\ pending_logs' = d.pending
                             /\ broadcastLog' = broadcastLog \cup {r.msg} \cup d.done
                             /\ bc' = others([bc EXCEPT ![b] = d.bcf])
                             /\ UNCHANGED <<loop_set, flush_scheduled, emitted,
                                            afterLoop, dropped>>
                        ELSE /\ bc' = others([bc EXCEPT ![b] = [r EXCEPT !.at = "idle"]])
                             /\ UNCHANGED logVars
    /\ UNCHANGED <<client, statusSent>>
    /\ WsFrame

NextWs ==
    \/ set_loop
    \/ emit
    \/ \E f \in FlushTasks : schedule_flush(f)
    \/ \E f \in FlushTasks : flush_pending_logs(f)
    \/ \E c \in Clients : ws_connect(c)
    \/ \E c \in Clients : ws_disconnect(c)
    \/ status_broadcast
    \/ \E b \in Broadcasters, ok \in BOOLEAN : send_returns(b, ok)

SpecWs == Init /\ [][NextWs]_vars

\* the event loop runs every callback and task that is ready, the startup
\* handler runs, and a send_json returns or raises
WsFairness ==
    /\ WF_vars(set_loop)
    /\ \A f \in FlushTasks : WF_vars(schedule_flush(f))
    /\ \A f \in FlushTasks : WF_vars(flush_pending_logs(f))
    /\ \A b \in Broadcasters : WF_vars(\E ok \in BOOLEAN : send_returns(b, ok))

SpecWsFair == Init /\ [][NextWs]_vars /\ WsFairness

\* ============================================================ properties
\* task t returns from procedure p in this step
ReturnsFrom(t, p) ==
    /\ pc[t] # "idle"
    /\ pc'[t] = "idle" \/ Len(stack'[t]) < Len(stack[t])
    /\ ret'[t].proc = p

\* is_connected() of the driver task t works on, right after this step
ConnAfter(t) ==
    IsConnectedIn(kind[drv[t]], svc', port', daemonReady', warpConnected')

\* task t is inside connect, disconnect or rotate_ip_simple
InLifecycle(t) == pc[t] \notin {"idle", "sw_same", "sw_poll", "sw_kill",
                                "gs_hit", "gs_conn", "gs_fetch"}

\* C1: switch_backend makes the new driver current only after the previous
\* one has been torn down: at the step that replaces the held instance, no
\* service of the previous driver is running and it is not connected.
C1_PreviousTornDown ==
    [][instance # 0 /\ instance' # instance =>
         /\ ServicesOf(kind[instance]) \cap Running(svc') = {}
         /\ ~IsConnectedIn(kind[instance], svc', port', daemonReady',
                           warpConnected')]_vars

\* C2: switch_backend(new), called while the current driver holds the
\* SOCKS5 port, returns the new instance only with the port free, and
\* get_current_backend() is then new.
C2_SwitchReturnsWithPortFree ==
    [][\A t \in Tasks :
         ReturnsFrom(t, "switch") /\ pre[t].held /\ instance' # instance =>
             /\ port' = "none"
             /\ currentBackend' = arg[t]]_vars

\* C3: no two lifecycle operations are in progress on one driver instance
\* at the same time.
C3_LifecycleSerialized ==
    \A t1, t2 \in Tasks :
        t1 # t2 /\ InLifecycle(t1) /\ InLifecycle(t2) => drv[t1] # drv[t2]

\* C4: when connect() returns false, no service this call started is left
\* running and the driver is not connected.
C4_FailedConnectLeavesNothing ==
    [][\A t \in Tasks :
         ReturnsFrom(t, "connect") /\ ~ret'[t].result =>
             /\ started'[t] \cap Running(svc') = {}
             /\ ~ConnAfter(t)]_vars

\* C5: connect() called while the driver is connected returns true and
\* issues no command (no registration, no stop/start, no warp-cli
\* disconnect/connect).
C5_ConnectWhenConnectedIsNoOp ==
    [][\A t \in Tasks :
         ReturnsFrom(t, "connect") /\ pc'[t] = "idle" /\ pre[t].conn =>
             /\ ret'[t].result
             /\ log'[t] = {}]_vars

\* a request for disconnect() is served in this step by a driver that was
\* not connected
DisconnectOfDisconnected ==
    /\ calls' # calls
    /\ lastCall'.op = "disconnect"
    /\ ~lastCall'.wasConn

Routing == <<rules, table100, endpointRoute, defaultRoute>>

C8_RotateEndsSettled ==
    [][\A t \in Tasks :
         ReturnsFrom(t, "rotate") =>
             IF ret'[t].result
                THEN ConnAfter(t)
                ELSE /\ ~ConnAfter(t)
                     /\ ServicesOf(kind[drv[t]]) \cap Running(svc') = {}]_vars

\* C9: the get_status() that follows a rotate_ip_simple() that returned true
\* reports nothing that was cached before the rotation.
C9_StatusFreshAfterRotate ==
    \A t \in Tasks :
        pc[t] = "idle" /\ ret[t].proc = "get_status"
        /\ pre[t].proc = "rotate" /\ pre[t].result
            => ~ret[t].status.old

\* set_protocol(p) is answered in this step: by the route's validation, or
\* by the driver's set_protocol in the thread pool
SetProtocolAnswered(p) ==
    /\ lastCall'.op = "set_protocol"
    /\ lastCall'.arg = p
    /\ \/ calls' # calls /\ lastCall'.by = "route"
       \/ pending = p /\ lastCall'.by = "driver"

DriverState == <<mode, preferred_protocol, configExists, appUp, tunDev, warpOn,
                 listener, rules, table100, endpointRoute, defaultRoute, saved,
                 endpointOverride, nftAllow>>

\* C10: set_protocol("wireguard") answered for a driver whose mode is proxy
\* or whose backend is usque is rejected, has run no command and has changed
\* nothing of the driver or the host; it succeeds only for an official
\* driver in tun mode.  The driver is the one the call was handed.
C10_WireguardOnlyOfficialTun ==
    [][SetProtocolAnswered("wireguard") =>
          /\ (Bound.mode = "proxy" \/ Bound.backend = "usque") =>
                ~lastCall'.ok /\ cmds' = {} /\ UNCHANGED DriverState
          /\ lastCall'.ok => Bound.backend = "official" /\ Bound.mode = "tun"]_vars

C10_Witness ==
    /\ lastCall.op = "set_protocol"
    /\ lastCall.arg = "wireguard"
    /\ lastCall.by = "driver"
    /\ ~lastCall.ok
    /\ mode = "proxy"
    /\ appBackend = "official"
    /\ warpOn

ConnectServed == calls' # calls /\ lastCall'.op = "connect"

\* C12: whenever connect() in tun mode returns true, the rule from the
\* driver's own address to table 100 exists and table 100 holds the default
\* route through the original gateway
C12_TunConnectHasBypassRule ==
    [][ConnectServed /\ mode' = "tun" /\ lastCall'.ok =>
          "self" \in rules' /\ "default" \in table100']_vars

\* a request for disconnect() is served in this step
DisconnectServed == calls' # calls /\ lastCall'.op = "disconnect"

C14_NeverRouteless == tunDev = "none" => defaultRoute = "orig"

\* C15: set_mode("tun") served in proxy mode inside a container fails: the
\* mode stays proxy and no command is run
C15_TunRejectedInContainer ==
    [][/\ calls' # calls
       /\ lastCall'.op = "set_mode" /\ lastCall'.arg = "tun"
       /\ containerized /\ mode = "proxy"
       => ~lastCall'.ok /\ mode' = "proxy" /\ cmds' = {}]_vars

\* a request for set_mode(m) is served in this step by the driver's set_mode
SetModeServed(m) ==
    calls' # calls /\ lastCall'.op = "set_mode" /\ lastCall'.arg = m

\* the services a driver class stops in its disconnect()
StoppedBy(b) ==
    IF b = "usque" THEN {"tun-proxy", "http-proxy", "usque-tun", "usque"}
                   ELSE OfficialServices

\* commands that start a connection
Starting(c) == c[1] = "start" \/ c = <<"cli", "connect">>

SetProtocolApplied(p) ==
    /\ pending = p
    /\ lastCall'.op = "set_protocol" /\ lastCall'.by = "driver"
    /\ ~(p = "wireguard" /\ Bound.mode # "tun")

\* C17: set_protocol(p) with p the current protocol returns true and issues
\* no command; with a different valid p it disconnects, then applies the
\* protocol setting, then reconnects, in that order, and returns what the
\* reconnect returned.
C17_SetProtocolReconnects ==
    [][\A p \in Protocols : SetProtocolApplied(p) =>
          /\ p = Bound.proto => lastCall'.ok /\ cmds' = {} /\ lastCall'.steps = <<>>
          /\ p # Bound.proto =>
                /\ lastCall'.steps \in
                      {<<"disconnect", "protocol", "stop", r>>
                         : r \in {"connect-true", "connect-false"}}
                /\ lastCall'.ok <=> lastCall'.steps[4] = "connect-true"]_vars

SetEndpointServed(a) ==
    calls' # calls /\ lastCall'.op = "set_endpoint" /\ lastCall'.arg = a

\* C18: set_custom_endpoint(address) first writes the endpoint override into
\* the client's configuration (removes it for the empty address), then does
\* a full disconnect, with the services stopped and the tun routing cleaned
\* up, then a connect, and returns what that connect returned.
C18_EndpointFullCycle ==
    [][\A a \in Endpoints : SetEndpointServed(a) =>
          /\ lastCall'.steps \in
                {<<"write", "disconnect", r>> : r \in {"connect-true", "connect-false"}}
          /\ endpointOverride'[appBackend] = a
          /\ AppStopCmds(StoppedBy(appBackend)) \subseteq cmds'
          /\ mode = "tun" => <<"ip", "flush-100">> \in cmds'
          /\ lastCall'.ok <=> lastCall'.steps[3] = "connect-true"]_vars

\* the call of get_status() that follows connect() or disconnect() in the one
\* flow of control answers from the status cache; only get_status() stores
\* into the cache, so the record was stored before that operation
CachedAcross(t) ==
    pc[t] = "gs_hit" /\ pre[t].proc \in {"connect", "disconnect"}

\* C19: with no concurrent calls, the first get_status() after connect() or
\* disconnect() has returned recomputes the status: it never answers with a
\* record cached before that operation.
C19_StatusRecomputedAfterChange ==
    \A t \in SeqTasks : ~CachedAcross(t)

\* C20: every driver operation terminates even when an external command
\* never exits: a call that has begun returns.
C20_OperationsTerminate ==
    \A t \in SeqTasks : (pc[t] # "idle") ~> (pc[t] = "idle")

\* C21: after a tun-mode connect of the official driver, the ports accepted
\* in the tunnel's firewall table are the ports found beforehand (port 22)
\* together with the ports the panel requires.
C21_AllowListIsUnion ==
    [][ConnectServed /\ appBackend = "official" /\ mode' = "tun" /\ lastCall'.ok
          => nftAllow' = PreexistingPorts \cup RequiredPorts]_vars

\* C22: the firewall cleanup removes the rules the system added to the
\* tunnel's firewall table: where the cleanup of a tun-mode disconnect() has
\* run, no accept rule the driver inserted remains.
C22_CleanupRemovesOwnRules ==
    [][DisconnectServed /\ appBackend = "official" /\ mode = "tun"
          => OfficialApp_cleanup_tun_routing(Cur).allow = {}]_vars

\* a connect() that runs the bypass-routing setup where the policy rule and
\* the routes of table 100 of an earlier run are in place
SetupRunsAgain ==
    /\ ConnectServed \/ (followUp = "connect" /\ followUp' = "none")
    /\ <<"ip", "rule-add">> \in cmds'
    /\ "self" \in rules /\ "default" \in table100

\* C23: the bypass-routing setup is idempotent: run again with the same
\* gateway, interface and address it leaves the policy rules and the routes
\* of table 100 as one run left them, without a duplicated rule, and the
\* connect is not reported as failed because of it.
C23_BypassSetupIdempotent ==
    [][SetupRunsAgain => rules' = rules /\ table100' = table100]_vars

\* the route serves task t's request to switch to a name that is no backend
SwitchToUnknown(t) ==
    \E b \in SwitchNames \ Backends : StartSwitch(t, b) \/ RejectSwitch(t, b)

UsqueStartReturns(t) ==
    /\ kind[drv[t]] = "usque"
    /\ pc[t] \in {"uc_start", "uc_poll"}
    /\ ReturnsFrom(t, "connect")

\* get_status() returns in this step, called right after a connect() of the
\* usque driver that returned true
StatusAfterConnect(t) ==
    /\ kind[drv[t]] = "usque"
    /\ ReturnsFrom(t, "get_status")
    /\ pre[t].proc = "connect" /\ pre[t].result

\* C25: the usque connect() returns true when the service start succeeded
\* and a poll, one of the allowed attempts, finds the service RUNNING and
\* the port listening, and false otherwise; get_status() called right after
\* a true result reports 'connected'.
C25_ConnectThenStatusConnected ==
    [][\A t \in SeqTasks :
         /\ UsqueStartReturns(t) =>
               (ret'[t].result <=> /\ pc[t] = "uc_poll"
                                   /\ n[t] < UsquePollAttempts
                                   /\ is_connected("usque"))
         /\ StatusAfterConnect(t) => ret'[t].status.status = "connected"]_vars

\* C26: a get_status call handed to the thread pool never waits in the
\* pool's queue behind connect calls that hold every worker thread while
\* they poll for readiness: lifecycle calls do not occupy what status needs.
StatusWaitsBehindConnects ==
    /\ \E i \in 1..Len(work_queue) : work_queue[i] = "get_status"
    /\ \A w \in PoolWorkers : threads[w] = "connect"
C26_StatusNotBlockedByConnects == ~StatusWaitsBehindConnects

\* the liveness half: a queued get_status call is eventually taken by a worker
StatusQueued == \E i \in 1..Len(work_queue) : work_queue[i] = "get_status"
StatusEventuallyRuns == StatusQueued ~> ~StatusQueued

\* C27: the saved original route is cleared when the driver disconnects:
\* after a disconnect() of the official driver has returned, the saved
\* fields are empty.
C27_SavedRouteClearedOnDisconnect ==
    [][DisconnectServed /\ appBackend = "official" => ~saved']_vars

\* C29: within one disconnect() the routing cleanup runs only in tun mode
\* and only after the client's disconnect command, the wait and the stop of
\* the services, in this order.
StepAt(st, x) == {i \in 1..Len(st) : st[i] = x}
RunsBefore(st, x, y) == \A i \in StepAt(st, x), j \in StepAt(st, y) : i < j
C29_DisconnectOrder ==
    [][DisconnectServed =>
         LET st == lastCall'.steps
         IN /\ RunsBefore(st, "disconnect", "wait")
            /\ RunsBefore(st, "wait", "stop")
            /\ RunsBefore(st, "stop", "cleanup")
            /\ RunsBefore(st, "disconnect", "cleanup")
            /\ mode = "proxy" => StepAt(st, "cleanup") = {}]_vars

\* C30: get_status() answers from the cache exactly when a record is cached
\* and the time of the call minus its capture time is below the TTL; the
\* answer from the cache is the cached record; any other call recomputes,
\* and stores what it returns under the time of its call, which is not
\* later than the start of the computation.  So a record returned from the
\* cache was computed less than the TTL before the call.
CacheAnswers(t) == pc[t] = "gs_hit" /\ ReturnsFrom(t, "get_status")
Recomputed(t) == pc[t] \in {"gs_conn", "gs_fetch"} /\ ReturnsFrom(t, "get_status")
C30_StatusCacheTTL ==
    [][\A t \in SeqTasks :
         /\ StartGetStatus(t) =>
               (pc'[t] = "gs_hit" <=>
                  /\ statusCache[drv'[t]] # None
                  /\ now - statusCacheTime[drv'[t]] < STATUS_CACHE_TTL)
         /\ CacheAnswers(t) =>
               /\ ret'[t].status = statusCache[drv[t]]
               /\ stamp[t].a - statusCacheTime[drv[t]] < STATUS_CACHE_TTL
               /\ UNCHANGED <<statusCache, statusCacheTime>>
         /\ Recomputed(t) =>
               /\ statusCache'[drv[t]] = ret'[t].status
               /\ statusCacheTime'[drv[t]] = stamp[t].a
               /\ stamp[t].a <= stamp'[t].b]_vars

\* a record cached at time 0 has been returned from the cache one second later
C30_Witness ==
    \E t \in SeqTasks :
        /\ pc[t] = "idle" /\ ret[t].proc = "get_status"
        /\ stamp[t].a = 1 /\ statusCacheTime[drv[t]] = 0
        /\ statusCache[drv[t]] = ret[t].status

\* C28: no operation of the driver raises and no _run_command call raises,
\* whatever its external commands do: a command that times out, cannot be
\* started or writes undecodable bytes gives the tuple with rc -1; and when
\* the command an answer rests on has failed, the answer is false or
\* 'disconnected': initialize after a failed registration, is_connected and
\* get_status after a failed `supervisorctl status`, connect after a failed
\* registration or a failed start of the service.
FailedAt(l) == \E f \in failed : f[1] = l
BackingService == IF appBackend = "official" THEN "warp-svc"
                  ELSE IF mode = "tun" THEN "usque-tun" ELSE "usque"
HealthCondition ==
    /\ BackingService \in appUp
    /\ IF mode = "tun" THEN tunDev # "none" ELSE listener # "none"
C31_IsConnectedIsHealthCondition == Driver_is_connected(Cur) <=> HealthCondition

\* C32: the IP lookup of get_status stops at the first endpoint, in order,
\* that returns parseable success data, and reports failure only when all
\* three endpoints have failed: an answer that reports a failure is skipped.
LookupDone == opRet.op = "get_status" /\ opRet.val = "connected"
LastWasSuccess == lastRun.rc = 0 /\ lastRun.out = "json_object"
C32_LookupTriesEveryEndpoint ==
    LookupDone =>
        /\ opRet.info # "none" => LastWasSuccess
        /\ opRet.info = "none" => opRet.at = 3 /\ ~LastWasSuccess

\* C33: when the driver is connected and the lookup has been made,
\* get_status() reports IP information only if it was fetched by this call
\* or is still within its cache window (cache_ttl) at the time of the call.
LookupReturns(t) == pc[t] = "gs_fetch" /\ ReturnsFrom(t, "get_status")
C33_StaleIpNotReported ==
    [][\A t \in SeqTasks :
         LookupReturns(t) /\ ret'[t].status.ip # 0 =>
             \/ cacheTime'[drv[t]] = stamp[t].b
             \/ stamp[t].b - cacheTime[drv[t]] < cache_ttl]_vars

\* C34: where a connect() call comes to a registration, it runs none when
\* the registration artifact exists, and it runs one at most once within the
\* call: when it runs the registration, the call has not run it before.
Artifact(t) == IF kind[drv[t]] = "usque" THEN regUsque ELSE regOfficial
RegisterCmd(t) == <<"register", kind[drv[t]]>>
AtRegistration(t) ==
    \/ pc[t] \in {"uc_init", "oc_reg"} /\ pc'[t] # pc[t]
    \/ pc[t] = "os_poll" /\ pc'[t] # pc[t] /\ DaemonResponsiveIn(svc, daemonReady)
C34_RegistersAtMostOnce ==
    [][\A t \in SeqTasks :
         AtRegistration(t) =>
            IF Artifact(t) THEN log'[t] = log[t] /\ UNCHANGED <<regUsque, regOfficial>>
            ELSE RegisterCmd(t) \in log'[t] /\ RegisterCmd(t) \notin log[t]]_vars

\* C35: a held instance is of the recorded backend, which is 'usque' or
\* 'official'; a get_instance() call that raises for an unknown name leaves
\* the recorded name and the held instance as they were; a get_instance()
\* call that returns gives a driver of the configured backend.
GetInstanceCalled(t) == ret'[t] # ret[t] /\ ret'[t].proc = "get_instance"
C35_FactoryNameMatchesInstance ==
    [][/\ instance' # 0 =>
            currentBackend' \in Backends /\ kind'[instance'] = currentBackend'
       /\ \A t \in Tasks :
            GetInstanceCalled(t) =>
               IF ret'[t].result THEN kind'[instance'] = envBackend
               ELSE currentBackend' = currentBackend /\ instance' = instance]_vars

\* C36: once a disconnect() has returned, a get_status() that returns (one
\* that began before the disconnect, or a later one answered from the
\* cache) leaves no 'connected' record in the status cache.
DisconnectReturned(t) == pc[t] = "idle" /\ ret[t].proc = "disconnect"
C36_NoConnectedRecordAfterDisconnect ==
    [][\A t \in SeqTasks, r \in Requesters :
          ReturnsFrom(t, "get_status") /\ DisconnectReturned(r) =>
             statusCache'[drv[t]].status # "connected"]_vars

\* C37: when the driver's set_protocol(p) returns false, the recorded
\* protocol is the one recorded before the call (so that a repeated
\* set_protocol(p) is not answered as already set).  The call is one made on
\* the current driver object.
C37_FailedSetProtocolKeepsProtocol ==
    [][\A p \in Protocols :
          SetProtocolApplied(p) /\ detached = NoObj /\ ~lastCall'.ok =>
             preferred_protocol' = preferred_protocol]_vars

\* C38: after set_custom_endpoint(new) on a connected usque driver in tun
\* mode, no host route for the endpoint configured before the call remains
\* (unless new is that endpoint again).
C38_NoRouteToPreviousEndpoint ==
    [][\A a \in Endpoints :
          /\ SetEndpointServed(a)
          /\ appBackend = "usque" /\ mode = "tun" /\ lastCall'.wasConn
          /\ UsqueApp_get_warp_endpoint(Cur) # a
          => UsqueApp_get_warp_endpoint(Cur) \notin endpointRoute']_vars

\* C39: every log entry emitted with the loop set is eventually broadcast
\* or pushed out of the pending buffer; the flush-scheduled flag, once set,
\* is eventually reset; at most one flush task waits to reset the flag.
FlushesWaiting == {f \in FlushTasks : fpc[f] \in {"queued", "sleeping"}}
LogsEventuallyBroadcast ==
    \A e \in Entries : e \in afterLoop ~> (e \in broadcastLog \/ e \in dropped)
FlagEventuallyReset == flush_scheduled ~> ~flush_scheduled
OneFlushPerFlagCycle == [](Cardinality(FlushesWaiting) <= 1)
C39_EmittedLogsAreBroadcast ==
    LogsEventuallyBroadcast /\ FlagEventuallyReset /\ OneFlushPerFlagCycle

\* C40: a broadcast() that has returned has sent its message exactly once to
\* every connection that was in the active list from its start to its
\* return, and no connection whose send failed is in the list.
C40_BroadcastReachesEveryClient ==
    /\ \A c \in returned.through : returned.sent[c] = 1
    /\ returned.dead \cap SeqSet(active_connections) = {}
====
